---- MODULE Spec2Model ----
(***************************************************************************)
(* State-machine model of the waygo backend: the ride lifecycle handlers   *)
(* of src/routes/rides.js (with src/models/Ride.js), the driver            *)
(* availability handlers of the users router (src/unnamed/part_004) and    *)
(* the wallet ledger (src/models/Wallet.js, wallet router in               *)
(* src/unnamed/part_002).                                                  *)
(*                                                                         *)
(* Every HTTP handler is an async function: between two awaits it runs     *)
(* without interruption, and at each await any other request may run.  A   *)
(* handler in flight is a record in calls[s]; its pc names the await it    *)
(* is suspended at, and its doc/wdoc fields are the Mongoose documents it  *)
(* holds in memory.  One action is one stretch of handler code from one    *)
(* await to the next.                                                      *)
(*                                                                         *)
(* Mongoose's document.save() sends only the paths modified in memory      *)
(* ($set of the new values, $push of appended array elements), keyed by    *)
(* _id.  It carries no condition on the fields read earlier, except the    *)
(* version key __v when an element of an array is modified in place.       *)
(***************************************************************************)
EXTENDS Integers, Sequences, FiniteSets, TLC

(* ------------------------------ bounds -------------------------------- *)
MaxCalls == 4       \* requests issued over a run
MaxRides == 2       \* rides created over a run

Slots   == {1, 2}             \* request handlers that may be in flight together
Riders  == {"r1", "r2"}
Drivers == {"d1", "d2"}
Users   == Riders \cup Drivers
NoUser  == "nobody"
RideIds == 1..MaxRides

\* Ride.js 95-121: a rating sub-record that was never set
NoRating == [rating |-> 0, createdAt |-> 0]

\* a ride that does not exist (not yet created, or deleted)
NoRide ==
  [status |-> "none", rider |-> NoUser, driver |-> NoUser, payMethod |-> "cash",
   payStatus |-> "pending", fare |-> 0, old |-> FALSE, acceptedAt |-> 0,
   startedAt |-> 0, completedAt |-> 0, cancelledAt |-> 0, cancelledBy |-> "none",
   driverRating |-> NoRating, riderRating |-> NoRating,
   distance |-> 0, duration |-> 0, fareBase |-> 0, fareDistance |-> 0,
   fareTime |-> 0]

PayMethods == {"cash", "wallet"}      \* Ride.js payment.method (two of the enum)
Distances  == {25}                    \* trip lengths offered, in tenths of a km

VARIABLES
  rides,        \* RideIds -> ride document, or NoRide (not created / deleted)
  nrides,       \* rides created so far (the next _id)
  isAvailable,  \* Drivers -> User.isAvailable
  wallets,      \* Users -> the wallet document findOne({ userId }) returns
  walletDocs,   \* Users -> number of wallet documents with that userId
  calls,        \* Slots -> handler in flight, or Idle
  rating,       \* Users -> User.rating, in hundredths
  isActive,     \* Users -> User.isActive
  location,     \* Drivers -> User.location.coordinates, or NoLocation
  reply,        \* the data of the last answer of a query handler
  ncalls        \* requests issued so far; also the clock behind new Date()

vars == <<rides, nrides, isAvailable, wallets, walletDocs, calls, rating, isActive,
          location, reply, ncalls>>

(* ------------------------- fare (pure function) ----------------------- *)
baseFare      == 500
perKmRate     == 200
perMinuteRate == 10

\* a duration rounded to the nearest minute
RoundedDuration(d10) == (d10 * 3 + 5) \div 10

\* Math.ceil(distance * 3) with the distance in tenths of a km
Duration(d10) == (d10 * 3 + 9) \div 10

\* rides.js requestRide 181-196 / Ride.js calculateFare
calculateFare(d10, duration) ==
  [base     |-> baseFare,
   distance |-> (d10 * perKmRate) \div 10,
   time     |-> duration * perMinuteRate,
   total    |-> baseFare + (d10 * perKmRate) \div 10 + duration * perMinuteRate]

\* Ride.js 182-198: the method of a ride document, from the distance and
\* the duration the document stores
rideBaseFare      == 500
ridePerKmRate     == 200
ridePerMinuteRate == 10

rideCalculateFare(ride) ==
  LET distanceFare == (ride.distance * ridePerKmRate) \div 10
      timeFare     == ride.duration * ridePerMinuteRate IN
    [base     |-> rideBaseFare,
     distance |-> distanceFare,
     time     |-> timeFare,
     total    |-> rideBaseFare + distanceFare + timeFare]

(* ------------------------------ helpers ------------------------------- *)
Merge(r, u) == [k \in DOMAIN r |-> IF k \in DOMAIN u THEN u[k] ELSE r[k]]

\* a wallet that does not exist (wallets are created on first use)
NoWallet == [exists |-> FALSE, balance |-> 0, isActive |-> TRUE, v |-> 0, txs |-> <<>>]

Idle ==
  [op |-> "idle", pc |-> "idle", id |-> 0, user |-> NoUser, ride |-> 0,
   doc |-> NoRide, saw |-> "none", by |-> "none", avail |-> FALSE, arg |-> FALSE,
   from |-> NoUser, to |-> NoUser, amount |-> 0, ref |-> 0, wdoc |-> NoWallet, wdoc2 |-> NoWallet,
   pay |-> "pending", stage |-> <<>>, idx |-> 0, status |-> "none", txid |-> 0,
   res |-> "none"]

ActiveStatuses == {"pending", "accepted", "in_progress"}

\* a handler that has sent its response; what it held in memory is gone
Done(s) == calls[s].pc = "done"

Free(s) == calls[s].pc \in {"idle", "done"}

Finished(c, r) ==
  Merge(Idle, [op |-> c.op, pc |-> "done", user |-> c.user, ride |-> c.ride,
               saw |-> c.saw, res |-> r])

Respond(s, r) == calls' = [calls EXCEPT ![s] = Finished(@, r)]

Goto(s, u) == calls' = [calls EXCEPT ![s] = Merge(@, u)]

\* a request arrives: it is served by a free handler slot (the first one:
\* slots are interchangeable) and takes the next request number
Begin(s, u) ==
  /\ Free(s)
  /\ \A t \in Slots : Free(t) => s <= t
  /\ ncalls < MaxCalls
  /\ ncalls' = ncalls + 1
  /\ calls' = [calls EXCEPT ![s] = Merge(Merge(Idle, u), [id |-> ncalls + 1])]

\* ride ids are handed out by requestRide: a request names a ride that was
\* created at some time (it may have been deleted since)
Known(id) == id <= nrides

\* Ride.js updateStatus 201-221: the paths it assigns; `now` is new Date()
updateStatus(newStatus, userId, now) ==
  CASE newStatus = "accepted"    -> [status |-> newStatus, acceptedAt |-> now]
    [] newStatus = "in_progress" -> [status |-> newStatus, startedAt |-> now]
    [] newStatus = "completed"   -> [status |-> newStatus, completedAt |-> now]
    [] newStatus = "cancelled"   -> [status |-> newStatus, cancelledAt |-> now,
                                     cancelledBy |-> userId]
    [] OTHER                     -> [status |-> newStatus]

\* document.save() of a ride: $set of the modified paths on the stored
\* document with that _id; it fails when the document no longer exists
RideExists(id) == rides[id] # NoRide

SaveRide(id, modified) == rides' = [rides EXCEPT ![id] = Merge(@, modified)]

(* ============================ acceptRide ============================== *)
\* rides.js 508-614
acceptRideStart(s, d, id) ==
  /\ Known(id)
  /\ Begin(s, [op |-> "acceptRide", pc |-> "ac_find", user |-> d, ride |-> id])
  /\ UNCHANGED <<walletDocs, isActive, location, reply, rating, rides, nrides, isAvailable, wallets>>

\* 518-541: Ride.findById, then the status check on what was read
acceptRideFind(s) ==
  /\ calls[s].pc = "ac_find"
  /\ LET ride == rides[calls[s].ride] IN
       IF ride = NoRide THEN Respond(s, "not_found")
       ELSE IF ride.status # "pending" THEN Respond(s, "not_available")
       ELSE Goto(s, [pc |-> "ac_user", doc |-> ride, saw |-> ride.status])
  /\ UNCHANGED <<walletDocs, isActive, location, reply, rating, rides, nrides, isAvailable, wallets, ncalls>>

\* a handler that takes every driver for available
AlwaysAvailable(d) == FALSE

\* 544: !driver.isAvailable
DriverUnavailable(d) == ~isAvailable[d]

\* a handler that assigns nobody
NobodyAssigned(user) == NoUser

\* 555: ride.driver = req.user.id
AssignDriver(user) == user

\* 543-555: User.findById, the availability check, ride.driver = req.user.id
acceptRideUser(s) ==
  /\ calls[s].pc = "ac_user"
  /\ IF DriverUnavailable(calls[s].user) THEN Respond(s, "driver_unavailable")
     ELSE Goto(s, [pc |-> "ac_save", avail |-> TRUE,
                   doc |-> Merge(calls[s].doc, [driver |-> AssignDriver(calls[s].user)])])
  /\ UNCHANGED <<walletDocs, isActive, location, reply, rating, rides, nrides, isAvailable, wallets, ncalls>>

\* 558-564: ride.updateStatus('accepted') saves driver, status, acceptedAt
acceptRideSave(s) ==
  /\ calls[s].pc = "ac_save"
  /\ LET id  == calls[s].ride
         mod == updateStatus("accepted", calls[s].user, calls[s].id)
                  @@ [driver |-> calls[s].doc.driver] IN
       IF RideExists(id)
       THEN /\ SaveRide(id, mod)
            /\ Goto(s, [pc |-> "ac_driver", doc |-> Merge(calls[s].doc, mod)])
       ELSE /\ Respond(s, "error")
            /\ UNCHANGED rides
  /\ UNCHANGED <<walletDocs, isActive, location, reply, rating, nrides, isAvailable, wallets, ncalls>>

\* 566-605: driver.isAvailable = false; driver.save(); response
acceptRideDriver(s) ==
  /\ calls[s].pc = "ac_driver"
  /\ isAvailable' = [isAvailable EXCEPT ![calls[s].user] = FALSE]
  /\ Respond(s, "ok")
  /\ UNCHANGED <<walletDocs, isActive, location, reply, rating, rides, nrides, wallets, ncalls>>

\* a handler that takes every caller for the ride's driver
AnyCaller(ride, user) == FALSE

\* 668, 724: ride.driver.toString() !== req.user.id
NotAssignedDriver(ride, user) == ride.driver # user

(* ============================= startRide ============================== *)
\* rides.js 659-682: Ride.findById and the checks on what was read;
\* ride.driver.toString() throws when no driver is assigned (caught: 500)
startRideStart(s, d, id) ==
  /\ Known(id)
  /\ Begin(s, [op |-> "startRide", pc |-> "st_find", user |-> d, ride |-> id])
  /\ UNCHANGED <<walletDocs, isActive, location, reply, rating, rides, nrides, isAvailable, wallets>>

startRideFind(s) ==
  /\ calls[s].pc = "st_find"
  /\ LET ride == rides[calls[s].ride] IN
       IF ride = NoRide THEN Respond(s, "not_found")
       ELSE IF ride.driver = NoUser THEN Respond(s, "error")
       ELSE IF NotAssignedDriver(ride, calls[s].user) THEN Respond(s, "forbidden")
       ELSE IF ride.status # "accepted" THEN Respond(s, "bad_status")
       ELSE Goto(s, [pc |-> "st_save", doc |-> ride, saw |-> ride.status])
  /\ UNCHANGED <<walletDocs, isActive, location, reply, rating, rides, nrides, isAvailable, wallets, ncalls>>

\* 684-699: ride.updateStatus('in_progress') saves status, startedAt
startRideSave(s) ==
  /\ calls[s].pc = "st_save"
  /\ LET id  == calls[s].ride
         mod == updateStatus("in_progress", calls[s].user, calls[s].id) IN
       IF RideExists(id)
       THEN SaveRide(id, mod) /\ Respond(s, "ok")
       ELSE Respond(s, "error") /\ UNCHANGED rides
  /\ UNCHANGED <<walletDocs, isActive, location, reply, rating, nrides, isAvailable, wallets, ncalls>>

(* ============================= cancelRide ============================= *)
\* rides.js 869-898
\* a handler that lets every caller cancel
Everybody(ride, user) == TRUE

\* 881-884: isRider || isDriver
IsParty(ride, user) ==
  \/ ride.rider = user
  \/ ride.driver # NoUser /\ ride.driver = user

cancelRideStart(s, u, id) ==
  /\ Known(id)
  /\ Begin(s, [op |-> "cancelRide", pc |-> "ca_find", user |-> u, ride |-> id])
  /\ UNCHANGED <<walletDocs, isActive, location, reply, rating, rides, nrides, isAvailable, wallets>>

cancelRideFind(s) ==
  /\ calls[s].pc = "ca_find"
  /\ LET ride     == rides[calls[s].ride]
         isRider  == ride.rider = calls[s].user
         isDriver == ride.driver # NoUser /\ ride.driver = calls[s].user IN
       IF ride = NoRide THEN Respond(s, "not_found")
       ELSE IF ~IsParty(ride, calls[s].user) THEN Respond(s, "forbidden")
       ELSE IF ride.status \in {"completed", "cancelled"} THEN Respond(s, "bad_status")
       ELSE Goto(s, [pc |-> "ca_save", doc |-> ride, saw |-> ride.status,
                     by |-> IF isRider THEN "rider" ELSE "driver"])
  /\ UNCHANGED <<walletDocs, isActive, location, reply, rating, rides, nrides, isAvailable, wallets, ncalls>>

\* 899: ride.updateStatus('cancelled', cancelledBy) saves status, cancelledAt,
\* cancelledBy
cancelRideSave(s) ==
  /\ calls[s].pc = "ca_save"
  /\ LET id  == calls[s].ride
         mod == updateStatus("cancelled", calls[s].by, calls[s].id) IN
       IF RideExists(id)
       THEN SaveRide(id, mod) /\ Goto(s, [pc |-> "ca_reason"])
       ELSE Respond(s, "error") /\ UNCHANGED rides
  /\ UNCHANGED <<walletDocs, isActive, location, reply, rating, nrides, isAvailable, wallets, ncalls>>

\* 900-904: ride.cancellationReason = reason; ride.save(); then the driver
\* is released only when the caller is the ride's driver
cancelRideReason(s) ==
  /\ calls[s].pc = "ca_reason"
  /\ IF ~RideExists(calls[s].ride) THEN Respond(s, "error")
     ELSE IF calls[s].by = "driver" THEN Goto(s, [pc |-> "ca_user"])
     ELSE Respond(s, "ok")
  /\ UNCHANGED <<walletDocs, isActive, location, reply, rating, rides, nrides, isAvailable, wallets, ncalls>>

\* 905: User.findById(req.user.id)
cancelRideUser(s) ==
  /\ calls[s].pc = "ca_user"
  /\ Goto(s, [pc |-> "ca_driver", avail |-> isAvailable[calls[s].user]])
  /\ UNCHANGED <<walletDocs, isActive, location, reply, rating, rides, nrides, isAvailable, wallets, ncalls>>

\* 906-932: driver.isAvailable = true; driver.save() (a no-op when the
\* value read was already true); response
cancelRideDriver(s) ==
  /\ calls[s].pc = "ca_driver"
  /\ isAvailable' = IF calls[s].avail THEN isAvailable
                    ELSE [isAvailable EXCEPT ![calls[s].user] = TRUE]
  /\ Respond(s, "ok")
  /\ UNCHANGED <<walletDocs, isActive, location, reply, rating, rides, nrides, wallets, ncalls>>

(* ===================== driver availability (users) ==================== *)
\* part_004 62-91: toggleAvailability
toggleAvailabilityStart(s, d) ==
  /\ Begin(s, [op |-> "toggleAvailability", pc |-> "tg_find", user |-> d])
  /\ UNCHANGED <<walletDocs, isActive, location, reply, rating, rides, nrides, isAvailable, wallets>>

toggleAvailabilityFind(s) ==
  /\ calls[s].pc = "tg_find"
  /\ Goto(s, [pc |-> "tg_save", avail |-> isAvailable[calls[s].user]])
  /\ UNCHANGED <<walletDocs, isActive, location, reply, rating, rides, nrides, isAvailable, wallets, ncalls>>

toggleAvailabilitySave(s) ==
  /\ calls[s].pc = "tg_save"
  /\ isAvailable' = [isAvailable EXCEPT ![calls[s].user] = ~calls[s].avail]
  /\ Respond(s, "ok")
  /\ UNCHANGED <<walletDocs, isActive, location, reply, rating, rides, nrides, wallets, ncalls>>

\* part_004 96-142: updateDriverStatus
updateDriverStatusStart(s, d, b) ==
  /\ Begin(s, [op |-> "updateDriverStatus", pc |-> "ud_find", user |-> d, arg |-> b])
  /\ UNCHANGED <<walletDocs, isActive, location, reply, rating, rides, nrides, isAvailable, wallets>>

updateDriverStatusFind(s) ==
  /\ calls[s].pc = "ud_find"
  /\ Goto(s, [pc |-> "ud_save", avail |-> isAvailable[calls[s].user]])
  /\ UNCHANGED <<walletDocs, isActive, location, reply, rating, rides, nrides, isAvailable, wallets, ncalls>>

updateDriverStatusSave(s) ==
  /\ calls[s].pc = "ud_save"
  /\ isAvailable' = IF calls[s].avail = calls[s].arg THEN isAvailable
                    ELSE [isAvailable EXCEPT ![calls[s].user] = calls[s].arg]
  /\ Respond(s, "ok")
  /\ UNCHANGED <<walletDocs, isActive, location, reply, rating, rides, nrides, wallets, ncalls>>

(* ============================ wallet model ============================ *)
\* Wallet.js 158-160
canWithdraw(w, amount) == w.balance >= amount /\ w.isActive

\* Wallet.js 145-156: updateBalance throws exactly when a debit exceeds the
\* balance held in memory
updateBalanceThrows(w, amount, type) ==
  type \in {"withdrawal", "ride_payment"} /\ ~(w.balance >= amount)

updateBalance(w, amount, type) ==
  IF type \in {"deposit", "transfer", "refund"} THEN w.balance + amount
  ELSE IF type \in {"withdrawal", "ride_payment"} THEN w.balance - amount
  ELSE w.balance

\* Wallet.js 31-49: the paths of TransactionSchema.metadata.  A transaction
\* pushed onto wallet.transactions is cast to the schema, which (strict mode,
\* the default) keeps only declared paths: metadata.externalReference is not
\* one of them, so no stored transaction carries it.
MetadataPaths == {"rideId", "fromUserId", "toUserId", "paymentMethod", "transactionId"}

CastExternalReference(ref) == IF "externalReference" \in MetadataPaths THEN ref ELSE 0

\* Wallet.js 131-137: TransactionSchema.pre('save') gives a subdocument
\* without reference 'TXN' + Date.now() + nine random characters when its
\* wallet is saved.  Each subdocument draws its own suffix; salt stands for
\* the suffix, which differs between the entries one call creates (an equal
\* draw has probability 36^-9 and the unique index on reference refuses it).
generateReference(now, salt) == <<now, salt>>

\* Wallet.js 3-55: a transaction as stored.  dir is the side of a transfer
\* (metadata.toUserId on the sender's entry, metadata.fromUserId on the
\* receiver's); ext is the stored metadata.externalReference (0: none); ref
\* is the reference the handler generated and handed to the gateway, which
\* is no path of the stored document and which no handler reads.
\* The entry is created at time now; reference is what the pre-save hook of
\* the subdocument gave it (no handler sets it).
Transaction(type, amount, status, dir, ride, ref, now) ==
  [type |-> type, amount |-> amount, status |-> status, dir |-> dir,
   ride |-> ride, ref |-> ref, ext |-> CastExternalReference(ref),
   reference |-> generateReference(now, dir),
   completedAt |-> IF status = "completed" THEN now ELSE 0]

\* reading a property of a plain object: undefined (0) when it has none
Property(obj, key) == IF key \in DOMAIN obj THEN obj[key] ELSE 0

\* Wallet.js 189-213: the two object literals transferFunds builds; neither
\* has a reference property, and pushing them onto wallet.transactions
\* casts a copy, so the hook never writes to them
fromTransaction(c) ==
  [type |-> "transfer", amount |-> c.amount, status |-> "completed",
   dir |-> "out", ride |-> c.ride]

toTransaction(c) ==
  [type |-> "transfer", amount |-> c.amount, status |-> "completed",
   dir |-> "in", ride |-> c.ride]

\* transactions.push(obj): obj cast to a TransactionSchema subdocument
Subdocument(obj, now) ==
  Transaction(obj.type, obj.amount, obj.status, obj.dir, obj.ride, 0, now)

\* a collection without the unique index on userId
NoUniqueIndex(u) == FALSE

\* Wallet.js 57-63: userId is unique; an insert of a second document with a
\* userId the collection holds fails with a duplicate key error
DuplicateKey(u) == walletDocs[u] > 0

\* Wallet.js 163-170
createWallet == [exists |-> TRUE, balance |-> 0, isActive |-> TRUE, v |-> 0, txs |-> <<>>]

\* Wallet.create: the document is inserted; findOne({ userId }) goes on
\* returning the document it returned before, when there was one
InsertWallet(u) ==
  /\ walletDocs' = [walletDocs EXCEPT ![u] = @ + 1]
  /\ wallets' = IF wallets[u].exists THEN wallets
                ELSE [wallets EXCEPT ![u] = createWallet]

Put(f, k, val) == [x \in DOMAIN f \cup {k} |-> IF x = k THEN val ELSE f[x]]

\* a wallet document holds an uncommitted write of another session's
\* transaction: a plain write waits for it, a transactional write conflicts
Locked(u, s) == \E t \in Slots \ {s} : u \in DOMAIN calls[t].stage

(* ------------------- Wallet.transferFunds (172-239) ------------------- *)
\* a handler that records every payment as completed
AlwaysCompleted(ok) == "completed"

\* rides.js 745-762: 'completed' after transferFunds returned, 'failed' in
\* the catch when it threw
PaymentStatus(ok) == IF ok THEN "completed" ELSE "failed"

\* The handler that called transferFunds resumes with its result; POST
\* /transfer answers with result.transactionId, which transferFunds reads
\* from fromTransaction.reference (231).
transferFundsReturn(s, ok) ==
  IF calls[s].op = "completeRide"
  THEN Goto(s, [pc |-> "co_payment", stage |-> <<>>, pay |-> PaymentStatus(ok)])
  ELSE calls' = [calls EXCEPT ![s] =
         [Finished(@, IF ok THEN "ok" ELSE "error")
            EXCEPT !.txid = IF ok THEN Property(fromTransaction(calls[s]), "reference")
                            ELSE 0]]

\* 173-187: startSession, startTransaction, both findOne in the session,
\* the existence check and canWithdraw
transferFundsRead(s) ==
  /\ calls[s].pc = "tf_read"
  /\ LET fromWallet == wallets[calls[s].from]
         toWallet   == wallets[calls[s].to] IN
       IF ~fromWallet.exists \/ ~toWallet.exists THEN transferFundsReturn(s, FALSE)
       ELSE IF ~canWithdraw(fromWallet, calls[s].amount) THEN transferFundsReturn(s, FALSE)
       ELSE Goto(s, [pc |-> "tf_debit", wdoc |-> fromWallet, wdoc2 |-> toWallet])
  /\ UNCHANGED <<walletDocs, isActive, location, reply, rating, rides, nrides, isAvailable, wallets, ncalls>>

\* a schema without the min validator on balance
BalanceUnchecked(b) == TRUE

\* Wallet.js 69-73: balance has min: 0, validated by every save that
\* modified it
BalanceValid(b) == b >= 0

\* Wallet.js 4-8: the enum of TransactionSchema.type, validated on save
TransactionTypes == {"deposit", "withdrawal", "transfer", "ride_payment", "refund"}

\* a write inside the transaction: it conflicts when the stored document was
\* written since the transaction read it or holds another transaction's write
WriteConflict(s, u, read) ==
  /\ u \notin DOMAIN calls[s].stage
  /\ (wallets[u] # read \/ Locked(u, s))

Staged(s, u) == IF u \in DOMAIN calls[s].stage THEN calls[s].stage[u] ELSE wallets[u]

\* 216: fromWallet.updateBalance(amount, 'ride_payment'); its save() runs in
\* the session the document was loaded in
transferFundsDebit(s) ==
  /\ calls[s].pc = "tf_debit"
  /\ LET from == calls[s].from
         bal  == updateBalance(calls[s].wdoc, calls[s].amount, "ride_payment") IN
       IF updateBalanceThrows(calls[s].wdoc, calls[s].amount, "ride_payment")
          \/ ~BalanceValid(bal)
          \/ WriteConflict(s, from, calls[s].wdoc)
       THEN transferFundsReturn(s, FALSE)
       ELSE Goto(s, [pc |-> "tf_credit",
                     stage |-> Put(calls[s].stage, from,
                                   [Staged(s, from) EXCEPT !.balance = bal])])
  /\ UNCHANGED <<walletDocs, isActive, location, reply, rating, rides, nrides, isAvailable, wallets, ncalls>>

\* 217: toWallet.updateBalance(amount, 'transfer')
transferFundsCredit(s) ==
  /\ calls[s].pc = "tf_credit"
  /\ LET to  == calls[s].to
         bal == updateBalance(calls[s].wdoc2, calls[s].amount, "transfer") IN
       IF ~BalanceValid(bal) \/ WriteConflict(s, to, calls[s].wdoc2)
       THEN transferFundsReturn(s, FALSE)
       ELSE Goto(s, [pc |-> "tf_push_from",
                     stage |-> Put(calls[s].stage, to,
                                   [Staged(s, to) EXCEPT !.balance = bal])])
  /\ UNCHANGED <<walletDocs, isActive, location, reply, rating, rides, nrides, isAvailable, wallets, ncalls>>

\* 190-200, 219, 222: the sender's completed 'transfer' entry is pushed and
\* fromWallet.save({ session }) sends the $push
transferFundsSaveFrom(s) ==
  /\ calls[s].pc = "tf_push_from"
  /\ LET from == calls[s].from
         tx   == Subdocument(fromTransaction(calls[s]), calls[s].id) IN
       IF WriteConflict(s, from, calls[s].wdoc)
       THEN transferFundsReturn(s, FALSE)
       ELSE Goto(s, [pc |-> "tf_push_to",
                     stage |-> Put(calls[s].stage, from,
                                   [Staged(s, from) EXCEPT !.txs = Append(@, tx),
                                                           !.v = @ + 1])])
  /\ UNCHANGED <<walletDocs, isActive, location, reply, rating, rides, nrides, isAvailable, wallets, ncalls>>

\* 203-213, 220, 223: the receiver's completed 'transfer' entry
transferFundsSaveTo(s) ==
  /\ calls[s].pc = "tf_push_to"
  /\ LET to == calls[s].to
         tx == Subdocument(toTransaction(calls[s]), calls[s].id) IN
       IF WriteConflict(s, to, calls[s].wdoc2)
       THEN transferFundsReturn(s, FALSE)
       ELSE Goto(s, [pc |-> "tf_commit",
                     stage |-> Put(calls[s].stage, to,
                                   [Staged(s, to) EXCEPT !.txs = Append(@, tx),
                                                         !.v = @ + 1])])
  /\ UNCHANGED <<walletDocs, isActive, location, reply, rating, rides, nrides, isAvailable, wallets, ncalls>>

\* 225-232: commitTransaction makes the staged writes visible together
transferFundsCommit(s) ==
  /\ calls[s].pc = "tf_commit"
  /\ wallets' = [u \in Users |-> Staged(s, u)]
  /\ transferFundsReturn(s, TRUE)
  /\ UNCHANGED <<walletDocs, isActive, location, reply, rating, rides, nrides, isAvailable, ncalls>>

\* 234-238: any step of the transaction may fail (a storage or network
\* error, a timeout); the catch aborts the transaction and rethrows
transferFundsAbort(s) ==
  /\ calls[s].pc \in {"tf_debit", "tf_credit", "tf_push_from", "tf_push_to", "tf_commit"}
  /\ transferFundsReturn(s, FALSE)
  /\ UNCHANGED <<walletDocs, isActive, location, reply, rating, rides, nrides, isAvailable, wallets, ncalls>>

(* ============================ completeRide ============================ *)
\* rides.js 713-736
completeRideStart(s, d, id) ==
  /\ Known(id)
  /\ Begin(s, [op |-> "completeRide", pc |-> "co_find", user |-> d, ride |-> id])
  /\ UNCHANGED <<walletDocs, isActive, location, reply, rating, rides, nrides, isAvailable, wallets>>

completeRideFind(s) ==
  /\ calls[s].pc = "co_find"
  /\ LET ride == rides[calls[s].ride] IN
       IF ride = NoRide THEN Respond(s, "not_found")
       ELSE IF ride.driver = NoUser THEN Respond(s, "error")
       ELSE IF NotAssignedDriver(ride, calls[s].user) THEN Respond(s, "forbidden")
       ELSE IF ride.status # "in_progress" THEN Respond(s, "bad_status")
       ELSE Goto(s, [pc |-> "co_save", doc |-> ride, saw |-> ride.status])
  /\ UNCHANGED <<walletDocs, isActive, location, reply, rating, rides, nrides, isAvailable, wallets, ncalls>>

\* 738-751: ride.updateStatus('completed') saves status, completedAt; a
\* wallet ride then calls Wallet.transferFunds(ride.rider, req.user.id,
\* ride.fare.total, ride._id) with the values of the document in memory
completeRideSave(s) ==
  /\ calls[s].pc = "co_save"
  /\ LET id  == calls[s].ride
         mod == updateStatus("completed", calls[s].user, calls[s].id) IN
       IF RideExists(id)
       THEN /\ SaveRide(id, mod)
            /\ IF calls[s].doc.payMethod = "wallet"
               THEN Goto(s, [pc |-> "tf_read", doc |-> Merge(calls[s].doc, mod),
                             from |-> calls[s].doc.rider, to |-> calls[s].user,
                             amount |-> calls[s].doc.fare])
               ELSE Goto(s, [pc |-> "co_payment", pay |-> "completed",
                             doc |-> Merge(calls[s].doc, mod)])
       ELSE Respond(s, "error") /\ UNCHANGED rides
  /\ UNCHANGED <<walletDocs, isActive, location, reply, rating, nrides, isAvailable, wallets, ncalls>>

\* 753-767: ride.payment.status = 'completed' | 'failed'; ride.save()
completeRidePayment(s) ==
  /\ calls[s].pc = "co_payment"
  /\ LET id == calls[s].ride IN
       IF calls[s].doc.payStatus = calls[s].pay
       THEN Goto(s, [pc |-> "co_user"]) /\ UNCHANGED rides
       ELSE IF RideExists(id)
       THEN SaveRide(id, [payStatus |-> calls[s].pay]) /\ Goto(s, [pc |-> "co_user"])
       ELSE Respond(s, "error") /\ UNCHANGED rides
  /\ UNCHANGED <<walletDocs, isActive, location, reply, rating, nrides, isAvailable, wallets, ncalls>>

\* 770: User.findById(req.user.id)
completeRideUser(s) ==
  /\ calls[s].pc = "co_user"
  /\ Goto(s, [pc |-> "co_driver", avail |-> isAvailable[calls[s].user]])
  /\ UNCHANGED <<walletDocs, isActive, location, reply, rating, rides, nrides, isAvailable, wallets, ncalls>>

\* 771-855: driver.isAvailable = true; driver.save(); events; response
completeRideDriver(s) ==
  /\ calls[s].pc = "co_driver"
  /\ isAvailable' = IF calls[s].avail THEN isAvailable
                    ELSE [isAvailable EXCEPT ![calls[s].user] = TRUE]
  /\ Respond(s, "ok")
  /\ UNCHANGED <<walletDocs, isActive, location, reply, rating, rides, nrides, wallets, ncalls>>

(* ============================ requestRide ============================= *)
\* rides.js 41-66
requestRideStart(s, r) ==
  /\ nrides + Cardinality({t \in Slots : calls[t].op = "requestRide" /\ ~Free(t)}) < MaxRides
  /\ Begin(s, [op |-> "requestRide", pc |-> "rq_old", user |-> r])
  /\ UNCHANGED <<walletDocs, isActive, location, reply, rating, rides, nrides, isAvailable, wallets>>

\* a cleanup that takes every ride of the rider
RidesOfRider(r) == {id \in RideIds : rides[id].rider = r}

\* the rider's pending rides requested more than five minutes ago
OldPendingRides(r) ==
  {id \in RideIds : rides[id].rider = r /\ rides[id].status = "pending" /\ rides[id].old}

\* 53-59: Ride.find of the old pending rides
requestRideFindOld(s) ==
  /\ calls[s].pc = "rq_old"
  /\ IF OldPendingRides(calls[s].user) # {}
     THEN Goto(s, [pc |-> "rq_delete"])
     ELSE Goto(s, [pc |-> "rq_active"])
  /\ UNCHANGED <<walletDocs, isActive, location, reply, rating, rides, nrides, isAvailable, wallets, ncalls>>

\* 61-65: Ride.deleteMany with the same filter
requestRideDeleteOld(s) ==
  /\ calls[s].pc = "rq_delete"
  /\ rides' = [id \in RideIds |->
                 IF id \in OldPendingRides(calls[s].user) THEN NoRide ELSE rides[id]]
  /\ Goto(s, [pc |-> "rq_active"])
  /\ UNCHANGED <<walletDocs, isActive, location, reply, rating, nrides, isAvailable, wallets, ncalls>>

\* a handler without the active-ride check
NoActiveRide(r) == FALSE

\* 69-72: Ride.findOne({ rider, status in pending/accepted/in_progress })
HasActiveRide(r) ==
  \E id \in RideIds : rides[id].rider = r /\ rides[id].status \in ActiveStatuses

\* 69-205: the active-ride check, then the validation of the request body
\* (coordinates, distance, duration, fare), all on the request's own data
requestRideCheck(s) ==
  /\ calls[s].pc = "rq_active"
  /\ \/ HasActiveRide(calls[s].user) /\ Respond(s, "active_exists")
     \/ ~HasActiveRide(calls[s].user) /\ Respond(s, "invalid")
     \/ ~HasActiveRide(calls[s].user) /\ Goto(s, [pc |-> "rq_create"])
  /\ UNCHANGED <<walletDocs, isActive, location, reply, rating, rides, nrides, isAvailable, wallets, ncalls>>

\* 170-226: the document requestRide creates for a trip of d10 tenths of
\* a km: duration, fare breakdown, payment method, status pending
rideData(r, d10, m) ==
  LET duration == Duration(d10)
      fare     == calculateFare(d10, duration) IN
    [NoRide EXCEPT !.status = "pending", !.rider = r, !.payMethod = m,
                   !.distance = d10, !.duration = duration,
                   !.fareBase = fare.base, !.fareDistance = fare.distance,
                   !.fareTime = fare.time, !.fare = fare.total]

\* 170-228: duration, fare, Ride.create of a pending ride; the candidate
\* query and the events that follow change no state (234-301)
requestRideCreateAt(s, d10, m) ==
  /\ calls[s].pc = "rq_create"
  /\ rides' = [rides EXCEPT ![nrides + 1] = rideData(calls[s].user, d10, m)]
  /\ nrides' = nrides + 1
  /\ calls' = [calls EXCEPT ![s] = Finished(Merge(@, [ride |-> nrides + 1]), "ok")]
  /\ UNCHANGED <<walletDocs, isActive, location, reply, rating, isAvailable, wallets, ncalls>>

requestRideCreate(s) ==
  \E d10 \in Distances, m \in PayMethods : requestRideCreateAt(s, d10, m)

\* time passes: a pending ride's requestedAt falls more than 5 minutes back
FiveMinutesPass(id) ==
  /\ rides[id].status = "pending"
  /\ ~rides[id].old
  /\ rides' = [rides EXCEPT ![id].old = TRUE]
  /\ UNCHANGED <<walletDocs, isActive, location, reply, rating, nrides, isAvailable, wallets, calls, ncalls>>

(* ====================== ride lifecycle: the system ==================== *)
InitBalance == 2000

\* Riders hold wallets (r1 funded by one completed deposit), d1 holds an
\* empty wallet, d2 has not opened one; every driver starts available
\* (User.isAvailable defaults to true) and no ride exists.
InitRide ==
  /\ rides = [id \in RideIds |-> NoRide]
  /\ nrides = 0
  /\ isAvailable = [d \in Drivers |-> TRUE]
  /\ wallets = [u \in Users |->
       IF u = "r1"
       THEN [createWallet EXCEPT !.balance = InitBalance, !.v = 1,
              !.txs = <<[Transaction("deposit", InitBalance, "completed", "none", 0, 0, 0)
                         EXCEPT !.completedAt = 0]>>]
       ELSE IF u \in {"r2", "d1"} THEN createWallet
       ELSE NoWallet]
  /\ calls = [s \in Slots |-> Idle]
  /\ rating = [u \in Users |-> 0]
  /\ isActive = [u \in Users |-> TRUE]
  /\ location = [d \in Drivers |-> 0]
  /\ reply = <<>>
  /\ walletDocs = [u \in Users |-> IF wallets[u].exists THEN 1 ELSE 0]
  /\ ncalls = 0

NextRide ==
  \/ \E s \in Slots, r \in Riders : requestRideStart(s, r)
  \/ \E s \in Slots : requestRideFindOld(s)
  \/ \E s \in Slots : requestRideDeleteOld(s)
  \/ \E s \in Slots : requestRideCheck(s)
  \/ \E s \in Slots : requestRideCreate(s)
  \/ \E s \in Slots, d \in Drivers, id \in RideIds : acceptRideStart(s, d, id)
  \/ \E s \in Slots : acceptRideFind(s)
  \/ \E s \in Slots : acceptRideUser(s)
  \/ \E s \in Slots : acceptRideSave(s)
  \/ \E s \in Slots : acceptRideDriver(s)
  \/ \E s \in Slots, d \in Drivers, id \in RideIds : startRideStart(s, d, id)
  \/ \E s \in Slots : startRideFind(s)
  \/ \E s \in Slots : startRideSave(s)
  \/ \E s \in Slots, d \in Drivers, id \in RideIds : completeRideStart(s, d, id)
  \/ \E s \in Slots : completeRideFind(s)
  \/ \E s \in Slots : completeRideSave(s)
  \/ \E s \in Slots : transferFundsRead(s)
  \/ \E s \in Slots : transferFundsDebit(s)
  \/ \E s \in Slots : transferFundsCredit(s)
  \/ \E s \in Slots : transferFundsSaveFrom(s)
  \/ \E s \in Slots : transferFundsSaveTo(s)
  \/ \E s \in Slots : transferFundsCommit(s)
  \/ \E s \in Slots : transferFundsAbort(s)
  \/ \E s \in Slots : completeRidePayment(s)
  \/ \E s \in Slots : completeRideUser(s)
  \/ \E s \in Slots : completeRideDriver(s)
  \/ \E s \in Slots, u \in Users, id \in RideIds : cancelRideStart(s, u, id)
  \/ \E s \in Slots : cancelRideFind(s)
  \/ \E s \in Slots : cancelRideSave(s)
  \/ \E s \in Slots : cancelRideReason(s)
  \/ \E s \in Slots : cancelRideUser(s)
  \/ \E s \in Slots : cancelRideDriver(s)
  \/ \E s \in Slots, d \in Drivers : toggleAvailabilityStart(s, d)
  \/ \E s \in Slots : toggleAvailabilityFind(s)
  \/ \E s \in Slots : toggleAvailabilitySave(s)
  \/ \E s \in Slots, d \in Drivers, b \in BOOLEAN : updateDriverStatusStart(s, d, b)
  \/ \E s \in Slots : updateDriverStatusFind(s)
  \/ \E s \in Slots : updateDriverStatusSave(s)
  \/ \E id \in RideIds : FiveMinutesPass(id)

SpecRide == InitRide /\ [][NextRide]_vars

(* ============================ wallet router =========================== *)
Amounts == {1, 2}

\* the number of wallet requests followed
MaxWalletCalls == 3

BeginWallet(s, u) == ncalls < MaxWalletCalls /\ Begin(s, u)

\* document.save() that sends a $push of one transaction: the update is
\* keyed by _id alone and increments __v (stored and in memory)
SavePush(w, tx) == [w EXCEPT !.txs = Append(@, tx), !.v = @ + 1]

\* document.save() that sends a $set below transactions.<i>: the filter
\* carries the __v held in memory and the save fails with a VersionError
\* when the stored __v differs
VersionError(u, doc) == wallets[u].v # doc.v

(* ---------------------- POST /deposit (111-214) ----------------------- *)
depositStart(s, u, a) ==
  /\ BeginWallet(s, [op |-> "deposit", pc |-> "dp_find", user |-> u, amount |-> a])
  /\ UNCHANGED <<walletDocs, isActive, location, reply, rating, rides, nrides, isAvailable, wallets>>

\* 129-133
depositFind(s) ==
  /\ calls[s].pc = "dp_find"
  /\ LET wallet == wallets[calls[s].user] IN
       IF wallet.exists THEN Goto(s, [pc |-> "dp_push", wdoc |-> wallet])
       ELSE Goto(s, [pc |-> "dp_create"])
  /\ UNCHANGED <<walletDocs, isActive, location, reply, rating, rides, nrides, isAvailable, wallets, ncalls>>

\* 132: Wallet.createWallet; userId is unique, a second create fails
depositCreate(s) ==
  /\ calls[s].pc = "dp_create"
  /\ LET u == calls[s].user IN
       IF DuplicateKey(u) THEN Respond(s, "error") /\ UNCHANGED <<wallets, walletDocs>>
       ELSE /\ InsertWallet(u)
            /\ Goto(s, [pc |-> "dp_push", wdoc |-> createWallet])
  /\ UNCHANGED <<isActive, location, reply, rating, rides, nrides, isAvailable, ncalls>>

\* 136-154: the pending deposit is pushed and saved
depositPush(s) ==
  /\ calls[s].pc = "dp_push"
  /\ ~Locked(calls[s].user, s)
  /\ LET u  == calls[s].user
         tx == Transaction("deposit", calls[s].amount, "pending", "none", 0,
                           calls[s].id, calls[s].id) IN
       /\ wallets' = [wallets EXCEPT ![u] = SavePush(@, tx)]
       /\ Goto(s, [pc |-> "dp_gateway", ref |-> calls[s].id,
                   wdoc |-> SavePush(calls[s].wdoc, tx)])
  /\ UNCHANGED <<walletDocs, isActive, location, reply, rating, rides, nrides, isAvailable, ncalls>>

\* 158-180: the gateway took the request; metadata.campayReference and
\* campayStatus are no schema paths, the save stores nothing of them
depositInitiated(s) ==
  /\ calls[s].pc = "dp_gateway"
  /\ Respond(s, "pending")
  /\ UNCHANGED <<walletDocs, isActive, location, reply, rating, rides, nrides, isAvailable, wallets, ncalls>>

\* 181-205: the gateway call failed: the last transaction of the document
\* in memory is completed and the balance in memory is raised and saved
depositFallback(s) ==
  /\ calls[s].pc = "dp_gateway"
  /\ ~Locked(calls[s].user, s)
  /\ LET u   == calls[s].user
         i   == Len(calls[s].wdoc.txs)
         bal == calls[s].wdoc.balance + calls[s].amount IN
       IF ~BalanceValid(bal) \/ VersionError(u, calls[s].wdoc)
       THEN Respond(s, "error") /\ UNCHANGED wallets
       ELSE /\ wallets' = [wallets EXCEPT ![u].balance = bal,
                                          ![u].txs[i].status = "completed",
                                          ![u].txs[i].completedAt = calls[s].id]
            /\ Respond(s, "ok")
  /\ UNCHANGED <<walletDocs, isActive, location, reply, rating, rides, nrides, isAvailable, ncalls>>

(* ---------------------- POST /withdraw (217-331) ---------------------- *)
withdrawStart(s, u, a) ==
  /\ BeginWallet(s, [op |-> "withdraw", pc |-> "wd_find", user |-> u, amount |-> a])
  /\ UNCHANGED <<walletDocs, isActive, location, reply, rating, rides, nrides, isAvailable, wallets>>

\* 235-249
withdrawFind(s) ==
  /\ calls[s].pc = "wd_find"
  /\ LET wallet == wallets[calls[s].user] IN
       IF ~wallet.exists THEN Respond(s, "not_found")
       ELSE IF ~canWithdraw(wallet, calls[s].amount) THEN Respond(s, "insufficient")
       ELSE Goto(s, [pc |-> "wd_push", wdoc |-> wallet])
  /\ UNCHANGED <<walletDocs, isActive, location, reply, rating, rides, nrides, isAvailable, wallets, ncalls>>

\* 252-270: the pending withdrawal is pushed and saved
withdrawPush(s) ==
  /\ calls[s].pc = "wd_push"
  /\ ~Locked(calls[s].user, s)
  /\ LET u  == calls[s].user
         tx == Transaction("withdrawal", calls[s].amount, "pending", "none", 0,
                           calls[s].id, calls[s].id) IN
       /\ wallets' = [wallets EXCEPT ![u] = SavePush(@, tx)]
       /\ Goto(s, [pc |-> "wd_gateway", ref |-> calls[s].id,
                   wdoc |-> SavePush(calls[s].wdoc, tx)])
  /\ UNCHANGED <<walletDocs, isActive, location, reply, rating, rides, nrides, isAvailable, ncalls>>

\* 272-296
withdrawInitiated(s) ==
  /\ calls[s].pc = "wd_gateway"
  /\ Respond(s, "pending")
  /\ UNCHANGED <<walletDocs, isActive, location, reply, rating, rides, nrides, isAvailable, wallets, ncalls>>

\* 297-322: the fallback completes the withdrawal and lowers the balance
\* held in memory
withdrawFallback(s) ==
  /\ calls[s].pc = "wd_gateway"
  /\ ~Locked(calls[s].user, s)
  /\ LET u   == calls[s].user
         i   == Len(calls[s].wdoc.txs)
         bal == calls[s].wdoc.balance - calls[s].amount IN
       IF ~BalanceValid(bal) \/ VersionError(u, calls[s].wdoc)
       THEN Respond(s, "error") /\ UNCHANGED wallets
       ELSE /\ wallets' = [wallets EXCEPT ![u].balance = bal,
                                          ![u].txs[i].status = "completed",
                                          ![u].txs[i].completedAt = calls[s].id]
            /\ Respond(s, "ok")
  /\ UNCHANGED <<walletDocs, isActive, location, reply, rating, rides, nrides, isAvailable, ncalls>>

(* ---------------------- POST /transfer (334-374) ---------------------- *)
\* the recipient only has to be a user: it may be the caller
transferStart(s, u, t, a) ==
  /\ BeginWallet(s, [op |-> "transfer", pc |-> "tf_read", user |-> u, from |-> u,
               to |-> t, amount |-> a])
  /\ UNCHANGED <<walletDocs, isActive, location, reply, rating, rides, nrides, isAvailable, wallets>>

(* ---------------------- POST /pay-ride (377-512) ---------------------- *)
\* 381-403: the caller is a rider, driverId names a driver
payRideStart(s, r, d, a) ==
  /\ BeginWallet(s, [op |-> "payRide", pc |-> "pr_rider", user |-> r, to |-> d,
               amount |-> a, ride |-> 1])
  /\ UNCHANGED <<walletDocs, isActive, location, reply, rating, rides, nrides, isAvailable, wallets>>

\* a handler without the balance check
NeverInsufficient(w, amount) == FALSE

\* 415: riderWallet.balance < amount
InsufficientBalance(w, amount) == w.balance < amount

\* 406-422
payRideRider(s) ==
  /\ calls[s].pc = "pr_rider"
  /\ LET riderWallet == wallets[calls[s].user] IN
       IF ~riderWallet.exists THEN Respond(s, "not_found")
       ELSE IF InsufficientBalance(riderWallet, calls[s].amount)
       THEN Respond(s, "insufficient")
       ELSE Goto(s, [pc |-> "pr_driver", wdoc |-> riderWallet])
  /\ UNCHANGED <<walletDocs, isActive, location, reply, rating, rides, nrides, isAvailable, wallets, ncalls>>

\* 425-428
payRideDriver(s) ==
  /\ calls[s].pc = "pr_driver"
  /\ LET driverWallet == wallets[calls[s].to] IN
       IF driverWallet.exists THEN Goto(s, [pc |-> "pr_save", wdoc2 |-> driverWallet])
       ELSE Goto(s, [pc |-> "pr_create"])
  /\ UNCHANGED <<walletDocs, isActive, location, reply, rating, rides, nrides, isAvailable, wallets, ncalls>>

\* 427
payRideCreate(s) ==
  /\ calls[s].pc = "pr_create"
  /\ LET d == calls[s].to IN
       IF DuplicateKey(d) THEN Respond(s, "error") /\ UNCHANGED <<wallets, walletDocs>>
       ELSE /\ InsertWallet(d)
            /\ Goto(s, [pc |-> "pr_save", wdoc2 |-> createWallet])
  /\ UNCHANGED <<isActive, location, reply, rating, rides, nrides, isAvailable, ncalls>>

\* 430-476: both documents are changed in memory and saved by two
\* independent save() calls under Promise.all: each save validates its own
\* document and, if valid, sends $set balance and $push of its entry; the
\* handler answers 500 when either fails
payRideSave(s) ==
  /\ calls[s].pc = "pr_save"
  /\ ~Locked(calls[s].user, s) /\ ~Locked(calls[s].to, s)
  /\ LET r    == calls[s].user
         d    == calls[s].to
         rbal == calls[s].wdoc.balance - calls[s].amount
         dbal == calls[s].wdoc2.balance + calls[s].amount
         riderTransaction  == Transaction("ride_payment", calls[s].amount, "completed",
                                          "none", calls[s].ride, 0, calls[s].id)
         driverTransaction == Transaction("ride_earning", calls[s].amount, "completed",
                                          "none", calls[s].ride, 0, calls[s].id)
         riderSaved  == BalanceValid(rbal) /\ riderTransaction.type \in TransactionTypes
         driverSaved == BalanceValid(dbal) /\ driverTransaction.type \in TransactionTypes IN
       /\ wallets' = [u \in Users |->
            IF u = r /\ riderSaved
            THEN [SavePush(wallets[u], riderTransaction) EXCEPT !.balance = rbal]
            ELSE IF u = d /\ driverSaved
            THEN [SavePush(wallets[u], driverTransaction) EXCEPT !.balance = dbal]
            ELSE wallets[u]]
       /\ Respond(s, IF riderSaved /\ driverSaved THEN "ok" ELSE "error")
  /\ UNCHANGED <<walletDocs, isActive, location, reply, rating, rides, nrides, isAvailable, ncalls>>

(* ------------------- POST /campay-webhook (727-802) ------------------- *)
WebhookStatuses == {"SUCCESSFUL", "FAILED", "PENDING"}

\* the endpoint is open: the amount is whatever the payload carries
WebhookAmounts == Amounts \cup {-1}

\* the references handed to the gateway so far; 0 is a payload that carries
\* no external_reference (part_005 132-167 passes it on as undefined)
IssuedReferences ==
  {0} \cup UNION {{wallets[u].txs[i].ref : i \in DOMAIN wallets[u].txs} : u \in Users}

webhookStart(s, ref, st, a) ==
  /\ ref \in IssuedReferences
  /\ BeginWallet(s, [op |-> "webhook", pc |-> "wh_find", ref |-> ref, status |-> st,
               amount |-> a])
  /\ UNCHANGED <<walletDocs, isActive, location, reply, rating, rides, nrides, isAvailable, wallets>>

\* 751-753: the transactions whose stored metadata.externalReference equals
\* the payload's; a stored transaction without one equals an absent one
MatchingTransactions(w, ref) == {i \in DOMAIN w.txs : w.txs[i].ext = ref}

\* 741-743: the wallets the query can return: one holding a transaction
\* with that reference, or, for an absent reference, any wallet (which one
\* comes first is the store's order)
MatchingWallets(ref) ==
  {u \in Users : wallets[u].exists
                 /\ (ref = 0 \/ MatchingTransactions(wallets[u], ref) # {})}

\* 741-758
webhookFind(s) ==
  /\ calls[s].pc = "wh_find"
  /\ \/ /\ MatchingWallets(calls[s].ref) = {}
        /\ Respond(s, "not_found")
     \/ \E u \in MatchingWallets(calls[s].ref) :
          LET found == MatchingTransactions(wallets[u], calls[s].ref) IN
            IF found = {} THEN Respond(s, "not_found")
            ELSE Goto(s, [pc |-> "wh_save", from |-> u, wdoc |-> wallets[u],
                          idx |-> CHOOSE i \in found : \A j \in found : i <= j])
  /\ UNCHANGED <<walletDocs, isActive, location, reply, rating, rides, nrides, isAvailable, wallets, ncalls>>

\* 760-793: SUCCESSFUL completes the transaction and, for a deposit or a
\* withdrawal, moves the balance held in memory by the payload's amount with
\* updateBalance; FAILED marks it failed; any other status stores nothing.
\* No branch looks at the status the transaction already has.
webhookSave(s) ==
  /\ calls[s].pc = "wh_save"
  /\ ~Locked(calls[s].from, s)
  /\ LET u      == calls[s].from
         wallet == calls[s].wdoc
         i      == calls[s].idx
         t      == wallet.txs[i]
         moves  == t.type \in {"deposit", "withdrawal"}
         bal    == IF moves THEN updateBalance(wallet, calls[s].amount, t.type)
                   ELSE wallets[u].balance IN
       IF calls[s].status = "SUCCESSFUL"
       THEN IF \/ moves /\ updateBalanceThrows(wallet, calls[s].amount, t.type)
               \/ moves /\ ~BalanceValid(bal)
               \/ VersionError(u, wallet)
            THEN Respond(s, "error") /\ UNCHANGED wallets
            ELSE /\ wallets' = [wallets EXCEPT ![u].balance = bal,
                                               ![u].txs[i].status = "completed",
                                               ![u].txs[i].completedAt = calls[s].id]
                 /\ Respond(s, "ok")
       ELSE IF calls[s].status = "FAILED" /\ t.status # "failed"
       THEN IF VersionError(u, wallet)
            THEN Respond(s, "error") /\ UNCHANGED wallets
            ELSE /\ wallets' = [wallets EXCEPT ![u].txs[i].status = "failed"]
                 /\ Respond(s, "ok")
       ELSE Respond(s, "ok") /\ UNCHANGED wallets
  /\ UNCHANGED <<walletDocs, isActive, location, reply, rating, rides, nrides, isAvailable, ncalls>>

(* ======================= wallet ledger: the system ==================== *)
WalletUsers == {"r1", "d1"}

InitFunds == 2

\* r1 holds a wallet funded by one completed deposit, d1 has not opened one
InitWallet ==
  /\ rides = [id \in RideIds |-> NoRide]
  /\ nrides = 0
  /\ isAvailable = [d \in Drivers |-> TRUE]
  /\ wallets = [u \in Users |->
       IF u = "r1"
       THEN [createWallet EXCEPT !.balance = InitFunds, !.v = 1,
              !.txs = <<[Transaction("deposit", InitFunds, "completed", "none", 0, 0, 0)
                         EXCEPT !.completedAt = 0]>>]
       ELSE NoWallet]
  /\ calls = [s \in Slots |-> Idle]
  /\ rating = [u \in Users |-> 0]
  /\ isActive = [u \in Users |-> TRUE]
  /\ location = [d \in Drivers |-> 0]
  /\ reply = <<>>
  /\ walletDocs = [u \in Users |-> IF wallets[u].exists THEN 1 ELSE 0]
  /\ ncalls = 0

NextWallet ==
  \/ \E s \in Slots, u \in WalletUsers, a \in Amounts : depositStart(s, u, a)
  \/ \E s \in Slots : depositFind(s)
  \/ \E s \in Slots : depositCreate(s)
  \/ \E s \in Slots : depositPush(s)
  \/ \E s \in Slots : depositInitiated(s)
  \/ \E s \in Slots : depositFallback(s)
  \/ \E s \in Slots, u \in WalletUsers, a \in Amounts : withdrawStart(s, u, a)
  \/ \E s \in Slots : withdrawFind(s)
  \/ \E s \in Slots : withdrawPush(s)
  \/ \E s \in Slots : withdrawInitiated(s)
  \/ \E s \in Slots : withdrawFallback(s)
  \/ \E s \in Slots, u, t \in WalletUsers, a \in Amounts : transferStart(s, u, t, a)
  \/ \E s \in Slots : transferFundsRead(s)
  \/ \E s \in Slots : transferFundsDebit(s)
  \/ \E s \in Slots : transferFundsCredit(s)
  \/ \E s \in Slots : transferFundsSaveFrom(s)
  \/ \E s \in Slots : transferFundsSaveTo(s)
  \/ \E s \in Slots : transferFundsCommit(s)
  \/ \E s \in Slots : transferFundsAbort(s)
  \/ \E s \in Slots, r \in Riders \cap WalletUsers, d \in Drivers \cap WalletUsers,
        a \in Amounts : payRideStart(s, r, d, a)
  \/ \E s \in Slots : payRideRider(s)
  \/ \E s \in Slots : payRideDriver(s)
  \/ \E s \in Slots : payRideCreate(s)
  \/ \E s \in Slots : payRideSave(s)
  \/ \E s \in Slots, ref \in 0..MaxWalletCalls, st \in WebhookStatuses, a \in WebhookAmounts :
       webhookStart(s, ref, st, a)
  \/ \E s \in Slots : webhookFind(s)
  \/ \E s \in Slots : webhookSave(s)

SpecWallet == InitWallet /\ [][NextWallet]_vars

(* ======================= claims: ride lifecycle ======================= *)
FinishedCall(s, op) == Done(s) /\ calls[s].op = op

\* C1: of the acceptRide calls made by different drivers on one pending
\* ride, at most one is answered with success (the others are told the ride
\* is no longer available), and the ride's driver is the caller that won.
C1_SingleAcceptWins ==
  \A s, t \in Slots :
    (/\ s # t
     /\ FinishedCall(s, "acceptRide") /\ FinishedCall(t, "acceptRide")
     /\ calls[s].ride = calls[t].ride
     /\ calls[s].user # calls[t].user
     /\ calls[s].res = "ok")
    => /\ calls[t].res = "not_available"
       /\ rides[calls[s].ride].driver = calls[s].user

\* C4: a rider never has more than one ride in pending, accepted or
\* in_progress.
RiderActiveRides(r) ==
  {id \in RideIds : rides[id].rider = r /\ rides[id].status \in ActiveStatuses}

C4_OneActiveRidePerRider == \A r \in Riders : Cardinality(RiderActiveRides(r)) <= 1

\* C5: a driver is never the assigned driver of more than one ride in
\* accepted or in_progress.
DriverActiveRides(d) ==
  {id \in RideIds : rides[id].driver = d /\ rides[id].status \in {"accepted", "in_progress"}}

C5_OneActiveRidePerDriver == \A d \in Drivers : Cardinality(DriverActiveRides(d)) <= 1

\* C7: completed and cancelled are absorbing: no step changes the status of
\* a ride that is completed or cancelled.
C7_TerminalAbsorbing ==
  [][\A id \in RideIds :
       rides[id].status \in {"completed", "cancelled"}
         => rides'[id].status = rides[id].status]_vars

\* C8: every change of a ride's status follows an edge of the lifecycle:
\* pending->accepted, accepted->in_progress, in_progress->completed, or
\* pending/accepted/in_progress->cancelled.
LifecycleEdges ==
  {<<"pending", "accepted">>, <<"accepted", "in_progress">>,
   <<"in_progress", "completed">>, <<"pending", "cancelled">>,
   <<"accepted", "cancelled">>, <<"in_progress", "cancelled">>}

C8_OnlyLifecycleEdges ==
  [][\A id \in RideIds :
       (/\ rides[id].status # "none" /\ rides'[id].status # "none"
        /\ rides'[id].status # rides[id].status)
         => <<rides[id].status, rides'[id].status>> \in LifecycleEdges]_vars

\* C10: when the rider's cancelRide and a driver's acceptRide both ran on a
\* ride that was still pending, only one of them is answered with success;
\* the ride is not left cancelled with its driver marked unavailable, nor
\* accepted although the cancellation was reported successful.
C10_CancelAcceptRace ==
  \A s, t \in Slots :
    (/\ FinishedCall(s, "cancelRide") /\ calls[s].saw = "pending"
     /\ FinishedCall(t, "acceptRide")
     /\ calls[s].ride = calls[t].ride)
    => LET ride == rides[calls[s].ride] IN
         /\ ~(calls[s].res = "ok" /\ calls[t].res = "ok")
         /\ ~(ride.status = "cancelled" /\ ride.driver \in Drivers
              /\ ~isAvailable[calls[t].user])
         /\ ~(ride.status = "accepted" /\ calls[s].res = "ok")

(* ======================== claims: wallet ledger ======================= *)
TransferPcs == {"tf_read", "tf_debit", "tf_credit", "tf_push_from", "tf_push_to", "tf_commit"}

\* the step is taken by the handler in slot s
StepOf(s) == calls'[s] # calls[s]

CompletedEntryAppended(u) ==
  /\ Len(wallets'[u].txs) = Len(wallets[u].txs) + 1
  /\ SubSeq(wallets'[u].txs, 1, Len(wallets[u].txs)) = wallets[u].txs
  /\ wallets'[u].txs[Len(wallets'[u].txs)].status = "completed"

TransferApplied(s) ==
  LET from == calls[s].from
      to   == calls[s].to IN
    /\ wallets'[from].balance = wallets[from].balance - calls[s].amount
    /\ wallets'[to].balance = wallets[to].balance + calls[s].amount
    /\ CompletedEntryAppended(from)
    /\ CompletedEntryAppended(to)

\* C2: every step of Wallet.transferFunds either leaves all wallets as they
\* are, or lowers the source balance by amount, raises the destination
\* balance by amount and appends one completed entry to each log.
C2_TransferAllOrNothing ==
  [][\A s \in Slots :
       (calls[s].pc \in TransferPcs /\ StepOf(s))
         => (wallets' = wallets \/ TransferApplied(s))]_vars

IsCredit(t) ==
  t.status = "completed"
    /\ (t.type \in {"deposit", "refund"} \/ (t.type = "transfer" /\ t.dir = "in"))

IsDebit(t) ==
  t.status = "completed"
    /\ (t.type \in {"withdrawal", "ride_payment"} \/ (t.type = "transfer" /\ t.dir = "out"))

RECURSIVE LedgerSum(_)
LedgerSum(txs) ==
  IF txs = <<>> THEN 0
  ELSE LET t == txs[Len(txs)] IN
         LedgerSum(SubSeq(txs, 1, Len(txs) - 1))
           + (IF IsCredit(t) THEN t.amount ELSE IF IsDebit(t) THEN 0 - t.amount ELSE 0)

\* C3: in every state each wallet's balance equals the sum of its completed
\* credit entries minus the sum of its completed debit entries.
C3_BalanceMatchesLedger ==
  \A u \in Users : wallets[u].balance = LedgerSum(wallets[u].txs)

SameLedger(u) ==
  /\ wallets'[u].balance = wallets[u].balance
  /\ Len(wallets'[u].txs) = Len(wallets[u].txs)
  /\ \A i \in DOMAIN wallets[u].txs : wallets'[u].txs[i].status = wallets[u].txs[i].status

\* C6: a webhook confirmation that resolved to a transaction whose stored
\* status is completed or failed changes no balance, changes no transaction
\* status and appends no entry.
C6_WebhookIdempotent ==
  [][\A s \in Slots :
       (/\ calls[s].pc = "wh_save" /\ StepOf(s)
        /\ wallets[calls[s].from].txs[calls[s].idx].status \in {"completed", "failed"})
         => \A u \in Users : SameLedger(u)]_vars

\* C9: in every state every wallet's balance is at least zero.
C9_BalanceNeverNegative == \A u \in Users : wallets[u].balance >= 0

\* a withdrawal was refused on a wallet that an earlier completed debit had
\* emptied
C9_Witness ==
  \E s \in Slots :
    /\ FinishedCall(s, "withdraw") /\ calls[s].res = "insufficient"
    /\ wallets[calls[s].user].exists
    /\ wallets[calls[s].user].balance = 0
    /\ \E i \in DOMAIN wallets[calls[s].user].txs : IsDebit(wallets[calls[s].user].txs[i])

(* ================== a wallet ride on its way: the system ============== *)
TripFunds == 2500

\* Ride 1 of rider r1 was paid by wallet, accepted and started by d1 and is
\* in progress (d1 unavailable); r1's wallet holds two fares and a remainder,
\* d1 holds an empty wallet, d2 has not opened one.
InitTrip ==
  /\ rides = [id \in RideIds |->
       IF id = 1
       THEN Merge(rideData("r1", 25, "wallet"),
                  [status |-> "in_progress", driver |-> "d1"])
       ELSE NoRide]
  /\ nrides = 1
  /\ isAvailable = [d \in Drivers |-> d # "d1"]
  /\ wallets = [u \in Users |->
       IF u = "r1"
       THEN [createWallet EXCEPT !.balance = TripFunds, !.v = 1,
              !.txs = <<[Transaction("deposit", TripFunds, "completed", "none", 0, 0, 0)
                         EXCEPT !.completedAt = 0]>>]
       ELSE IF u = "d1" THEN createWallet
       ELSE NoWallet]
  /\ calls = [s \in Slots |-> Idle]
  /\ rating = [u \in Users |-> 0]
  /\ isActive = [u \in Users |-> TRUE]
  /\ location = [d \in Drivers |-> 0]
  /\ reply = <<>>
  /\ walletDocs = [u \in Users |-> IF wallets[u].exists THEN 1 ELSE 0]
  /\ ncalls = 0

NextTrip ==
  \/ \E s \in Slots, d \in Drivers, id \in RideIds : completeRideStart(s, d, id)
  \/ \E s \in Slots : completeRideFind(s)
  \/ \E s \in Slots : completeRideSave(s)
  \/ \E s \in Slots : transferFundsRead(s)
  \/ \E s \in Slots : transferFundsDebit(s)
  \/ \E s \in Slots : transferFundsCredit(s)
  \/ \E s \in Slots : transferFundsSaveFrom(s)
  \/ \E s \in Slots : transferFundsSaveTo(s)
  \/ \E s \in Slots : transferFundsCommit(s)
  \/ \E s \in Slots : transferFundsAbort(s)
  \/ \E s \in Slots : completeRidePayment(s)
  \/ \E s \in Slots : completeRideUser(s)
  \/ \E s \in Slots : completeRideDriver(s)
  \/ \E s \in Slots, d \in Drivers : payRideStart(s, "r1", d, rides[1].fare)
  \/ \E s \in Slots : payRideRider(s)
  \/ \E s \in Slots : payRideDriver(s)
  \/ \E s \in Slots : payRideCreate(s)
  \/ \E s \in Slots : payRideSave(s)

SpecTrip == InitTrip /\ [][NextTrip]_vars

(* ==================== claims: payment and availability ================= *)
\* the completed debit entries of the rider's wallet that carry the ride
FareDebits(id) ==
  LET txs == wallets[rides[id].rider].txs IN
    {i \in DOMAIN txs : txs[i].ride = id /\ IsDebit(txs[i])}

InFlight(op, id) ==
  \E s \in Slots : ~Free(s) /\ calls[s].op = op /\ calls[s].ride = id

\* C11: the fare of a wallet ride is taken from the rider's wallet at most
\* once, and exactly once when the ride is completed with its payment
\* recorded as completed and no completeRide or pay-ride call on it is
\* still running.
C11_FareTransferredOnce ==
  \A id \in RideIds :
    (rides[id] # NoRide /\ rides[id].payMethod = "wallet")
      => /\ Cardinality(FareDebits(id)) <= 1
         /\ (/\ rides[id].status = "completed" /\ rides[id].payStatus = "completed"
             /\ ~InFlight("completeRide", id) /\ ~InFlight("payRide", id))
              => Cardinality(FareDebits(id)) = 1

\* the step in which the handler in slot s answers its op with success
Returns(s, op) ==
  /\ calls[s].op = op /\ ~Free(s)
  /\ calls'[s].pc = "done" /\ calls'[s].res = "ok"

\* C12: when cancelRide or completeRide returns with success on a ride that
\* has a driver assigned, that driver's isAvailable is true.
C12_DriverReleased ==
  [][\A s \in Slots :
       (/\ Returns(s, "cancelRide") \/ Returns(s, "completeRide")
        /\ rides'[calls[s].ride].driver \in Drivers)
         => isAvailable'[rides'[calls[s].ride].driver]]_vars

\* no handler is running
Quiescent == \A s \in Slots : Free(s)

\* C13: between requests, the assigned driver of a ride in accepted or
\* in_progress has isAvailable = false.
C13_BusyDriverUnavailable ==
  Quiescent =>
    \A id \in RideIds :
      (rides[id].status \in {"accepted", "in_progress"} /\ rides[id].driver \in Drivers)
        => ~isAvailable[rides[id].driver]

\* C14: once a ride has a driver, no step gives it another one.
C14_DriverWrittenOnce ==
  [][\A id \in RideIds :
       (rides[id].driver \in Drivers /\ rides'[id] # NoRide)
         => rides'[id].driver = rides[id].driver]_vars

TimestampOf ==
  [accepted |-> "acceptedAt", in_progress |-> "startedAt",
   completed |-> "completedAt", cancelled |-> "cancelledAt"]

\* C15: a timestamp that is set is never written again, a timestamp is
\* written only by the step that moves the ride into its status, and no ride
\* has both completedAt and cancelledAt.
C15_TimestampsWrittenOnce ==
  [][\A id \in RideIds :
       rides'[id] # NoRide =>
         /\ \A st \in DOMAIN TimestampOf :
              rides'[id][TimestampOf[st]] # rides[id][TimestampOf[st]]
                => /\ rides[id][TimestampOf[st]] = 0
                   /\ rides'[id].status = st /\ rides[id].status # st
         /\ ~(rides'[id].completedAt # 0 /\ rides'[id].cancelledAt # 0)]_vars


\* transaction i of u's wallet is a deposit or a withdrawal that this step
\* moves from pending to completed
SettledBy(u, i) ==
  /\ wallets[u].txs[i].type \in {"deposit", "withdrawal"}
  /\ wallets[u].txs[i].status = "pending"
  /\ wallets'[u].txs[i].status = "completed"

\* the step of call s appends one pending transaction to the caller's
\* wallet and leaves its balance as it was
InitiatedPending(s) ==
  LET u == calls[s].user IN
    /\ wallets'[u].balance = wallets[u].balance
    /\ Len(wallets'[u].txs) = Len(wallets[u].txs) + 1
    /\ wallets'[u].txs[Len(wallets'[u].txs)].status = "pending"
    /\ wallets'[u].txs[Len(wallets'[u].txs)].amount = calls[s].amount

\* the handlers that work on deposits and withdrawals
SettlementOps(ops) ==
  \A s \in Slots : (StepOf(s) /\ calls[s].op \in ops) =>
    /\ calls[s].pc \in {"dp_push", "wd_push"} => InitiatedPending(s)
    /\ \A u \in Users :
         (wallets[u].exists /\ wallets'[u].balance # wallets[u].balance) =>
           \E i \in DOMAIN wallets[u].txs : SettledBy(u, i)

\* C16: a step of the deposit, withdraw or gateway-callback handler that
\* initiates a deposit or withdrawal appends a pending transaction and
\* leaves the balance unchanged, and such a step changes a balance only when
\* it moves a deposit or withdrawal of that wallet from pending to completed
C16_BalanceMovesOnSettlement ==
  [][SettlementOps({"deposit", "withdraw", "webhook"})]_vars


\* the rider's wallet exists and holds less than the amount to pay
Exceeds(u, amount) == wallets[u].exists /\ wallets[u].balance < amount

\* C17: a wallet payment of a ride whose amount exceeds the rider's balance
\* fails: POST /pay-ride answers insufficient balance, the transfer started
\* by completeRide ends as a failed payment, and no step of the failing call
\* changes a balance or a transaction log
C17_InsufficientPaymentRejected ==
  [][\A s \in Slots : StepOf(s) =>
       /\ (calls[s].pc = "pr_rider" /\ Exceeds(calls[s].user, calls[s].amount)) =>
            /\ calls'[s].pc = "done"
            /\ calls'[s].res = "insufficient"
            /\ wallets' = wallets
       /\ (/\ calls[s].pc = "tf_read"
           /\ calls[s].op = "completeRide"
           /\ wallets[calls[s].to].exists
           /\ Exceeds(calls[s].from, calls[s].amount)) =>
            /\ calls'[s].pc = "co_payment"
            /\ calls'[s].pay = "failed"
            /\ calls'[s].stage = <<>>
            /\ wallets' = wallets
       /\ (calls[s].op = "completeRide" /\ calls[s].pay = "failed") =>
            wallets' = wallets]_vars

\* POST /pay-ride has answered insufficient balance while a completeRide has
\* just had its transfer refused for the same reason
C17_Witness ==
  \E s, c \in Slots :
    /\ FinishedCall(s, "payRide") /\ calls[s].res = "insufficient"
    /\ calls[c].op = "completeRide" /\ calls[c].pc = "co_payment"
    /\ calls[c].pay = "failed"
    /\ wallets[calls[c].to].exists
    /\ Exceeds(calls[c].from, calls[c].amount)


\* call s, a requestRide of a rider who has an active ride when the handler
\* looks for one, is answered active-ride-exists and creates no ride
RejectedAsActive(s) ==
  (calls[s].pc = "rq_active" /\ RiderActiveRides(calls[s].user) # {}) =>
    /\ calls'[s].pc = "done"
    /\ calls'[s].res = "active_exists"
    /\ rides' = rides
    /\ nrides' = nrides

\* ride id is a pending ride of rider r requested more than five minutes ago
StalePending(id, r) ==
  rides[id].rider = r /\ rides[id].status = "pending" /\ rides[id].old

C19_UnavailableDriverRejected ==
  [][\A s \in Slots :
       (StepOf(s) /\ calls[s].pc = "ac_user" /\ ~isAvailable[calls[s].user]) =>
         /\ calls'[s].pc = "done"
         /\ calls'[s].res = "driver_unavailable"
         /\ rides' = rides
         /\ isAvailable' = isAvailable]_vars

\* an unavailable driver was refused a ride that is still pending and has
\* no driver
C19_Witness ==
  \E s \in Slots :
    /\ FinishedCall(s, "acceptRide")
    /\ calls[s].res = "driver_unavailable"
    /\ ~isAvailable[calls[s].user]
    /\ rides[calls[s].ride] # NoRide
    /\ rides[calls[s].ride].status = "pending"
    /\ rides[calls[s].ride].driver = NoUser

\* C20: a startRide or completeRide whose caller is not the driver stored
\* on the ride (the ride may have no driver at all) ends at the step that
\* reads the ride, with an authorization error or a server error, and
\* changes no ride, no wallet and no driver's availability
C20_OnlyAssignedDriverMoves ==
  [][\A s \in Slots :
       (/\ StepOf(s)
        /\ calls[s].pc \in {"st_find", "co_find"}
        /\ rides[calls[s].ride] # NoRide
        /\ rides[calls[s].ride].driver # calls[s].user) =>
         /\ calls'[s].pc = "done"
         /\ calls'[s].res \in {"forbidden", "error"}
         /\ rides' = rides
         /\ wallets' = wallets
         /\ isAvailable' = isAvailable]_vars

\* a driver who is not the ride's driver was refused on a ride that has
\* one, and another call was refused with a server error, the answer for a
\* ride without driver
C20_Witness ==
  \E s, c \in Slots :
    /\ Done(s) /\ calls[s].op \in {"startRide", "completeRide"}
    /\ calls[s].res = "forbidden"
    /\ rides[calls[s].ride] # NoRide
    /\ rides[calls[s].ride].driver \in Drivers \ {calls[s].user}
    /\ Done(c) /\ calls[c].op \in {"startRide", "completeRide"}
    /\ calls[c].res = "error"
    /\ rides[calls[c].ride] # NoRide


(* ============================== rateRide ============================== *)
\* rides.js 1342-1465
Ratings == {1, 5}

RaterRoles == {"driver", "rider"}

\* 1344-1361: the body carries a rating between 1 and 5 and a rater role
rateRideStart(s, u, id, n, by) ==
  /\ Known(id)
  /\ Begin(s, [op |-> "rateRide", pc |-> "rt_find", user |-> u, ride |-> id,
               amount |-> n, by |-> by])
  /\ UNCHANGED <<walletDocs, isActive, location, reply, rating, rides, nrides, isAvailable, wallets>>

\* 1364-1394: Ride.findById, the status check and the authorization of the
\* rater; reading _id of a driver that is null throws
rateRideFind(s) ==
  /\ calls[s].pc = "rt_find"
  /\ LET ride == rides[calls[s].ride] IN
       IF ride = NoRide THEN Respond(s, "not_found")
       ELSE IF ride.status # "completed" THEN Respond(s, "bad_status")
       ELSE IF calls[s].by = "driver" /\ ride.driver = NoUser THEN Respond(s, "error")
       ELSE IF calls[s].by = "driver" /\ ride.driver # calls[s].user
       THEN Respond(s, "forbidden")
       ELSE IF calls[s].by = "rider" /\ ride.rider # calls[s].user
       THEN Respond(s, "forbidden")
       ELSE Goto(s, [pc |-> "rt_save", doc |-> ride, saw |-> ride.status])
  /\ UNCHANGED <<walletDocs, isActive, location, reply, rating, rides, nrides, isAvailable, wallets, ncalls>>

\* 1397-1410: the rater's sub-record is assigned and the ride is saved
rateRideSave(s) ==
  /\ calls[s].pc = "rt_save"
  /\ LET id         == calls[s].ride
         ratingData == [rating |-> calls[s].amount, createdAt |-> calls[s].id] IN
       IF ~RideExists(id) THEN Respond(s, "error") /\ UNCHANGED rides
       ELSE /\ SaveRide(id, IF calls[s].by = "driver"
                            THEN [driverRating |-> ratingData]
                            ELSE [riderRating |-> ratingData])
            /\ Goto(s, [pc |-> "rt_rides"])
  /\ UNCHANGED <<walletDocs, isActive, location, reply, rating, nrides, isAvailable, wallets, ncalls>>

\* 1413: the user the rating is about
TargetUser(s) ==
  IF calls[s].by = "driver" THEN calls[s].doc.rider ELSE calls[s].doc.driver

\* 1416-1433: the completed rides of the target user that enter the average
\* (every ride carries both sub-records, a createdAt default fills them)
RatedRides(s) ==
  {id \in RideIds :
     /\ rides[id].status = "completed"
     /\ IF calls[s].by = "driver" THEN rides[id].rider = TargetUser(s)
        ELSE rides[id].driver = TargetUser(s)}

\* the rating a ride adds to the total
RatingOf(s, id) ==
  IF calls[s].by = "driver" THEN rides[id].driverRating.rating
  ELSE rides[id].riderRating.rating

RECURSIVE SumRatings(_, _)
SumRatings(s, ids) ==
  IF ids = {} THEN 0
  ELSE LET id == CHOOSE x \in ids : TRUE IN
         RatingOf(s, id) + SumRatings(s, ids \ {id})

\* 1436-1439: parseFloat((total / count).toFixed(2)), in hundredths
AverageRating(total, count) == (total * 200 + count) \div (2 * count)

\* 1413-1435: Ride.find and the average; a ride without the rating adds
\* undefined to the total, and the update of a NaN rating is refused
rateRideRides(s) ==
  /\ calls[s].pc = "rt_rides"
  /\ LET ids == RatedRides(s) IN
       IF TargetUser(s) = NoUser THEN Respond(s, "error")
       ELSE IF ids = {} THEN Respond(s, "ok")
       ELSE IF \E id \in ids : RatingOf(s, id) = 0 THEN Respond(s, "error")
       ELSE Goto(s, [pc |-> "rt_user",
                     idx |-> AverageRating(SumRatings(s, ids), Cardinality(ids))])
  /\ UNCHANGED <<walletDocs, isActive, location, reply, rating, rides, nrides, isAvailable, wallets, ncalls>>

\* 1438-1441: User.findByIdAndUpdate(targetUser._id, { rating })
rateRideUser(s) ==
  /\ calls[s].pc = "rt_user"
  /\ rating' = [rating EXCEPT ![TargetUser(s)] = calls[s].idx]
  /\ Respond(s, "ok")
  /\ UNCHANGED <<walletDocs, isActive, location, reply, rides, nrides, isAvailable, wallets, ncalls>>

(* ==================== rides to rate: the system ======================= *)
\* Ride 1 (r1, d1) was completed and paid in cash, ride 2 (r2, d2) is in
\* progress; nobody has rated yet.
InitRate ==
  /\ rides = [id \in RideIds |->
       IF id = 1
       THEN Merge(rideData("r1", 25, "cash"),
                  [status |-> "completed", driver |-> "d1", payStatus |-> "completed"])
       ELSE Merge(rideData("r2", 25, "cash"),
                  [status |-> "in_progress", driver |-> "d2"])]
  /\ nrides = MaxRides
  /\ isAvailable = [d \in Drivers |-> d # "d2"]
  /\ wallets = [u \in Users |-> NoWallet]
  /\ calls = [s \in Slots |-> Idle]
  /\ rating = [u \in Users |-> 0]
  /\ isActive = [u \in Users |-> TRUE]
  /\ location = [d \in Drivers |-> 0]
  /\ reply = <<>>
  /\ walletDocs = [u \in Users |-> IF wallets[u].exists THEN 1 ELSE 0]
  /\ ncalls = 0

NextRate ==
  \/ \E s \in Slots, u \in Users, id \in RideIds, n \in Ratings, by \in RaterRoles :
       rateRideStart(s, u, id, n, by)
  \/ \E s \in Slots : rateRideFind(s)
  \/ \E s \in Slots : rateRideSave(s)
  \/ \E s \in Slots : rateRideRides(s)
  \/ \E s \in Slots : rateRideUser(s)
  \/ \E s \in Slots, d \in Drivers, id \in RideIds : completeRideStart(s, d, id)
  \/ \E s \in Slots : completeRideFind(s)
  \/ \E s \in Slots : completeRideSave(s)
  \/ \E s \in Slots : completeRidePayment(s)
  \/ \E s \in Slots : completeRideUser(s)
  \/ \E s \in Slots : completeRideDriver(s)

SpecRate == InitRate /\ [][NextRate]_vars

\* C21: a rating sub-record of a ride changes only while the ride is
\* completed, and only if that sub-record was never set before
C21_RatedOnceWhenCompleted ==
  [][\A id \in RideIds :
       /\ rides'[id].driverRating # rides[id].driverRating =>
            rides[id].status = "completed" /\ rides[id].driverRating = NoRating
       /\ rides'[id].riderRating # rides[id].riderRating =>
            rides[id].status = "completed" /\ rides[id].riderRating = NoRating]_vars


\* ride id exists before the step and is gone after it
Deleted(id) == rides[id] # NoRide /\ rides'[id] = NoRide

LeftPending(s) == wallets' = wallets /\ calls'[s].res \in {"pending", "error"}

\* the step of call s completes the transaction the call appended and moves
\* the stored balance by exactly the call's amount, not below zero
CompletedInFallback(s) ==
  LET u == calls[s].user
      i == Len(calls[s].wdoc.txs) IN
    /\ wallets'[u].txs[i].status = "completed"
    /\ wallets'[u].balance =
         IF calls[s].op = "deposit" THEN wallets[u].balance + calls[s].amount
         ELSE wallets[u].balance - calls[s].amount
    /\ wallets'[u].balance >= 0
    /\ calls'[s].res = "ok"

\* C23: the step that follows the gateway call of a deposit or withdrawal
\* either leaves the wallet untouched (the transaction stays as it is) or
\* completes the transaction and moves the stored balance by exactly the
\* transaction's amount, never below zero; the answer tells which
C23_FallbackKeepsAmount ==
  [][\A s \in Slots :
       (StepOf(s) /\ calls[s].pc \in {"dp_gateway", "wd_gateway"}) =>
         LeftPending(s) \/ CompletedInFallback(s)]_vars


(* ========================== findNearbyDrivers ========================= *)
\* rides.js 417-503.  Points lie on one meridian, a position is its
\* distance from the equator in km; there calculateDistance (10-36) is
\* R * |dLat|, the difference of the positions.
Positions == {0, 5, 20}

NoLocation == 0 - 1

Radii == {0, 10}

calculateDistance(point1, point2) ==
  IF point2 >= point1 THEN point2 - point1 ELSE point1 - point2

\* a filter that lets every driver through
AnyDriver(d, point, radius) == TRUE

\* 439-460: the filter on availability, location and distance
IsNearby(d, point, radius) ==
  /\ isAvailable[d]
  /\ location[d] # NoLocation
  /\ calculateDistance(point, location[d]) <= radius

\* 430-433: User.find({ role: 'driver', isActive: true }), in the order of
\* the store
DriverOrder == <<"d1", "d2">>

AllDrivers == SelectSeq(DriverOrder, LAMBDA d : isActive[d])

\* 466-478: the entry returned for a driver
WithDistance(d, point) ==
  [id |-> d, distance |-> calculateDistance(point, location[d]),
   isAvailable |-> isAvailable[d]]

\* 481: Array.prototype.sort((a, b) => a.distance - b.distance), stable
RECURSIVE InsertByDistance(_, _)
InsertByDistance(e, sorted) ==
  IF sorted = <<>> THEN <<e>>
  ELSE IF e.distance < Head(sorted).distance THEN <<e>> \o sorted
  ELSE <<Head(sorted)>> \o InsertByDistance(e, Tail(sorted))

RECURSIVE SortByDistance(_)
SortByDistance(seq) ==
  IF seq = <<>> THEN <<>>
  ELSE InsertByDistance(seq[Len(seq)], SortByDistance(SubSeq(seq, 1, Len(seq) - 1)))

MaxNearbyCalls == 2

\* 419-427: latitude and longitude are given; radius defaults to 10
findNearbyDriversStart(s, point, radius) ==
  /\ ncalls < MaxNearbyCalls
  /\ Begin(s, [op |-> "findNearbyDrivers", pc |-> "nb_find", from |-> NoUser,
               amount |-> point, idx |-> radius])
  /\ UNCHANGED <<walletDocs, isActive, location, reply, rating, rides, nrides, isAvailable, wallets>>

\* 430-492: the query, the filter, the entries, the sort and the answer
findNearbyDriversFind(s) ==
  /\ calls[s].pc = "nb_find"
  /\ LET point  == calls[s].amount
         radius == calls[s].idx
         nearbyDrivers == SelectSeq(AllDrivers, LAMBDA d : IsNearby(d, point, radius))
         driversWithDistance ==
           [k \in 1..Len(nearbyDrivers) |-> WithDistance(nearbyDrivers[k], point)] IN
       reply' = SortByDistance(driversWithDistance)
  /\ Respond(s, "ok")
  /\ UNCHANGED <<walletDocs, isActive, location, rating, rides, nrides, isAvailable, wallets, ncalls>>

(* =================== drivers on the map: the system =================== *)
\* any population of drivers: active or not, available or not, with or
\* without a position
InitNearby ==
  /\ rides = [id \in RideIds |-> NoRide]
  /\ nrides = 0
  /\ isAvailable \in [Drivers -> BOOLEAN]
  /\ wallets = [u \in Users |-> NoWallet]
  /\ calls = [s \in Slots |-> Idle]
  /\ rating = [u \in Users |-> 0]
  /\ isActive \in {f \in [Users -> BOOLEAN] : \A r \in Riders : f[r]}
  /\ location \in [Drivers -> Positions \cup {NoLocation}]
  /\ reply = <<>>
  /\ walletDocs = [u \in Users |-> IF wallets[u].exists THEN 1 ELSE 0]
  /\ ncalls = 0

NextNearby ==
  \/ \E s \in Slots, point \in Positions, radius \in Radii :
       findNearbyDriversStart(s, point, radius)
  \/ \E s \in Slots : findNearbyDriversFind(s)

SpecNearby == InitNearby /\ [][NextNearby]_vars

\* the drivers that qualify for a query at `point` with `radius`
Qualified(point, radius) ==
  {d \in Drivers : /\ isAvailable[d]
                   /\ isActive[d]
                   /\ location[d] \in Positions
                   /\ location[d] - point <= radius
                   /\ point - location[d] <= radius}

\* C24: the answer of findNearbyDrivers is a success that lists exactly the
\* drivers that are available, active and positioned within the radius at
\* the time of the query, each once and with its distance, nearest first
\* (the empty list when none qualifies)
C24_NearbyDriversExact ==
  [][\A s \in Slots : (StepOf(s) /\ calls[s].pc = "nb_find") =>
       LET point  == calls[s].amount
           radius == calls[s].idx IN
         /\ calls'[s].pc = "done" /\ calls'[s].res = "ok"
         /\ {reply'[k].id : k \in DOMAIN reply'} = Qualified(point, radius)
         /\ Len(reply') = Cardinality(Qualified(point, radius))
         /\ \A k \in DOMAIN reply' :
              \/ reply'[k].distance = location[reply'[k].id] - point
              \/ reply'[k].distance = point - location[reply'[k].id]
         /\ \A k \in DOMAIN reply' : reply'[k].distance >= 0
         /\ \A j, k \in DOMAIN reply' :
              j < k => reply'[j].distance <= reply'[k].distance]_vars

\* a query was answered with two drivers at different distances, the one
\* that comes second in the store first
C24_Witness ==
  /\ Len(reply) = 2
  /\ reply[1].id = "d2"
  /\ reply[1].distance < reply[2].distance
  /\ \E s \in Slots : FinishedCall(s, "findNearbyDrivers")


(* ===================== requests of any length: the system ============= *)
\* trips of 0.1 km to 1.2 km, and the trip of 2.5 km
FareDistances == (1..12) \cup {25}

InitFare == InitRide

NextFare ==
  \/ \E s \in Slots, r \in Riders : requestRideStart(s, r)
  \/ \E s \in Slots : requestRideFindOld(s)
  \/ \E s \in Slots : requestRideDeleteOld(s)
  \/ \E s \in Slots : requestRideCheck(s)
  \/ \E s \in Slots, d10 \in FareDistances, m \in PayMethods :
       requestRideCreateAt(s, d10, m)
  \/ \E id \in RideIds : FiveMinutesPass(id)

SpecFare == InitFare /\ [][NextFare]_vars

\* the fare of a trip of d10 tenths of a km that takes `minutes`
FareOf(d10, minutes) == 500 + d10 * 20 + minutes * 10

\* C25: every ride created by requestRide has duration = ceil(distance * 3)
\* and the fare base 500, distance part distance * 200, time part
\* duration * 10 and their sum as total; Ride.calculateFare gives the same
\* breakdown from the stored distance and duration; the fare of 2.5 km in
\* 15 minutes is 1150 for both functions
C25_FareBreakdown ==
  /\ \A id \in RideIds : rides[id] # NoRide =>
       LET ride == rides[id] IN
         /\ ride.duration * 10 >= ride.distance * 3
         /\ (ride.duration - 1) * 10 < ride.distance * 3
         /\ ride.fareBase = 500
         /\ ride.fareDistance = ride.distance * 20
         /\ ride.fareTime = ride.duration * 10
         /\ ride.fare = FareOf(ride.distance, ride.duration)
         /\ rideCalculateFare(ride) =
              [base |-> ride.fareBase, distance |-> ride.fareDistance,
               time |-> ride.fareTime, total |-> ride.fare]
  /\ calculateFare(25, 15).total = 1150
  /\ rideCalculateFare([distance |-> 25, duration |-> 15]).total = 1150

\* two rides exist, the trip of 2.5 km (8 minutes, fare 1080) and a trip
\* whose duration was rounded up from a fraction below one half
C25_Witness ==
  /\ \E id \in RideIds : rides[id].distance = 25 /\ rides[id].fare = 1080
  /\ \E id \in RideIds : rides[id].distance = 11 /\ rides[id].duration = 4


TerminalStatuses == {"completed", "failed", "cancelled"}

\* C26: in every step a wallet's log keeps all its entries in their places
\* with their type and amount, and an entry's status changes only from
\* pending to completed, failed or cancelled
C26_LogAppendOnly ==
  [][\A u \in Users : wallets[u].exists =>
       /\ wallets'[u].exists
       /\ Len(wallets'[u].txs) >= Len(wallets[u].txs)
       /\ \A i \in DOMAIN wallets[u].txs :
            /\ wallets'[u].txs[i].type = wallets[u].txs[i].type
            /\ wallets'[u].txs[i].amount = wallets[u].txs[i].amount
            /\ wallets'[u].txs[i].status # wallets[u].txs[i].status =>
                 /\ wallets[u].txs[i].status = "pending"
                 /\ wallets'[u].txs[i].status \in TerminalStatuses]_vars


\* C27: a cancelRide whose caller is neither the rider nor the driver stored
\* on the ride is rejected at the step that reads the ride and changes no
\* ride (status, cancelledAt, cancelledBy) and no driver's availability
C27_StrangerCannotCancel ==
  [][\A s \in Slots :
       (/\ StepOf(s)
        /\ calls[s].pc = "ca_find"
        /\ rides[calls[s].ride] # NoRide
        /\ rides[calls[s].ride].rider # calls[s].user
        /\ rides[calls[s].ride].driver # calls[s].user) =>
         /\ calls'[s].pc = "done"
         /\ calls'[s].res = "forbidden"
         /\ rides' = rides
         /\ isAvailable' = isAvailable]_vars

\* a user who is no party of an accepted ride was refused its cancellation
C27_Witness ==
  \E s \in Slots :
    /\ FinishedCall(s, "cancelRide")
    /\ calls[s].res = "forbidden"
    /\ rides[calls[s].ride] # NoRide
    /\ rides[calls[s].ride].status = "accepted"
    /\ calls[s].user \notin {rides[calls[s].ride].rider, rides[calls[s].ride].driver}


\* the step of call s, a pay-ride, debits the rider and credits the driver
\* by the amount and appends one completed entry to each log
PaidInFull(s) ==
  LET r == calls[s].user
      d == calls[s].to IN
    /\ wallets'[r].balance = wallets[r].balance - calls[s].amount
    /\ wallets'[d].balance = wallets[d].balance + calls[s].amount
    /\ Len(wallets'[r].txs) = Len(wallets[r].txs) + 1
    /\ Len(wallets'[d].txs) = Len(wallets[d].txs) + 1
    /\ wallets'[r].txs[Len(wallets'[r].txs)].status = "completed"
    /\ wallets'[d].txs[Len(wallets'[d].txs)].status = "completed"

\* C28: the step in which pay-ride writes the two wallets either applies
\* the whole payment (rider down, driver up, one completed entry each) or
\* changes no wallet
C28_PayRideAllOrNothing ==
  [][\A s \in Slots : (StepOf(s) /\ calls[s].pc = "pr_save") =>
       PaidInFull(s) \/ wallets' = wallets]_vars


\* transaction i of u's wallet is the pending deposit or withdrawal that was
\* issued with external reference ref
IssuedPending(u, i, ref) ==
  /\ wallets[u].exists
  /\ i \in DOMAIN wallets[u].txs
  /\ wallets[u].txs[i].ref = ref
  /\ wallets[u].txs[i].status = "pending"
  /\ wallets[u].txs[i].type \in {"deposit", "withdrawal"}

\* C29: a confirmation that carries the external reference of a pending
\* deposit or withdrawal finds that transaction; SUCCESSFUL then completes
\* it, sets completedAt and moves the balance by the amount recorded in the
\* transaction, FAILED marks it failed and leaves the balance
C29_ConfirmationSettlesIssued ==
  [][\A s \in Slots : (StepOf(s) /\ calls[s].op = "webhook" /\ calls[s].ref # 0) =>
       /\ calls[s].pc = "wh_find" =>
            \A u \in Users, i \in 1..MaxWalletCalls + 1 :
              IssuedPending(u, i, calls[s].ref) =>
                /\ calls'[s].pc = "wh_save"
                /\ calls'[s].from = u
                /\ calls'[s].idx = i
       /\ calls[s].pc = "wh_save" =>
            LET u == calls[s].from
                i == calls[s].idx
                t == wallets[u].txs[i] IN
              (t.status = "pending" /\ calls[s].status = "SUCCESSFUL") =>
                /\ wallets'[u].txs[i].status = "completed"
                /\ wallets'[u].txs[i].completedAt # 0
                /\ wallets'[u].balance =
                     IF t.type = "deposit" THEN wallets[u].balance + t.amount
                     ELSE wallets[u].balance - t.amount]_vars


(* ================== a deactivated wallet: the system ================== *)
\* r1's wallet is funded and was deactivated (isActive = false), d1's
\* wallet is funded and active, d2 has not opened one.
InitFrozen ==
  /\ rides = [id \in RideIds |-> NoRide]
  /\ nrides = 0
  /\ isAvailable = [d \in Drivers |-> TRUE]
  /\ wallets = [u \in Users |->
       IF u \in {"r1", "d1"}
       THEN [createWallet EXCEPT !.balance = InitFunds, !.v = 1,
              !.isActive = (u # "r1"),
              !.txs = <<[Transaction("deposit", InitFunds, "completed", "none", 0, 0, 0)
                         EXCEPT !.completedAt = 0]>>]
       ELSE NoWallet]
  /\ calls = [s \in Slots |-> Idle]
  /\ rating = [u \in Users |-> 0]
  /\ isActive = [u \in Users |-> TRUE]
  /\ location = [d \in Drivers |-> 0]
  /\ reply = <<>>
  /\ walletDocs = [u \in Users |-> IF wallets[u].exists THEN 1 ELSE 0]
  /\ ncalls = 0

NextFrozen ==
  \/ \E s \in Slots, u, t \in WalletUsers, a \in Amounts : transferStart(s, u, t, a)
  \/ \E s \in Slots : transferFundsRead(s)
  \/ \E s \in Slots : transferFundsDebit(s)
  \/ \E s \in Slots : transferFundsCredit(s)
  \/ \E s \in Slots : transferFundsSaveFrom(s)
  \/ \E s \in Slots : transferFundsSaveTo(s)
  \/ \E s \in Slots : transferFundsCommit(s)
  \/ \E s \in Slots : transferFundsAbort(s)
  \/ \E s \in Slots, r \in Riders \cap WalletUsers, d \in Drivers, a \in Amounts :
       payRideStart(s, r, d, a)
  \/ \E s \in Slots : payRideRider(s)
  \/ \E s \in Slots : payRideDriver(s)
  \/ \E s \in Slots : payRideCreate(s)
  \/ \E s \in Slots : payRideSave(s)

SpecFrozen == InitFrozen /\ [][NextFrozen]_vars

\* u holds a wallet that is not active
Inactive(u) == wallets[u].exists /\ ~wallets[u].isActive

\* C30: a transfer whose source wallet is inactive fails when it reads the
\* wallets and writes nothing, and no step of a transfer or of a pay-ride
\* lowers the balance of an inactive wallet or appends a debit to its log
C30_InactiveNeverDebited ==
  [][\A s \in Slots : (StepOf(s) /\ calls[s].op \in {"transfer", "payRide"}) =>
       /\ (/\ calls[s].pc = "tf_read"
           /\ Inactive(calls[s].from)
           /\ wallets[calls[s].to].exists) =>
            /\ calls'[s].pc = "done"
            /\ calls'[s].res = "error"
            /\ wallets' = wallets
       /\ \A u \in Users : Inactive(u) =>
            /\ wallets'[u].balance >= wallets[u].balance
            /\ \A i \in DOMAIN wallets'[u].txs \ DOMAIN wallets[u].txs :
                 ~IsDebit(wallets'[u].txs[i])]_vars

(* ==================== the reference of a transfer ===================== *)
\* the entries of u's log that the step appended and that lie on side dir of
\* a transfer
AppendedEntries(u, dir) ==
  {wallets'[u].txs[i] : i \in {j \in DOMAIN wallets'[u].txs \ DOMAIN wallets[u].txs :
                                 wallets'[u].txs[j].dir = dir}}

\* C31: when a transfer commits, the entry appended to the source wallet and
\* the entry appended to the destination wallet carry the same reference and
\* the same ride id, and the call returns that reference as transaction id
C31_TransferEntriesCorrelated ==
  [][\A s \in Slots :
       (/\ StepOf(s) /\ calls[s].pc = "tf_commit" /\ calls[s].op = "transfer"
        /\ calls'[s].res = "ok")
         => \A e \in AppendedEntries(calls[s].from, "out"),
               f \in AppendedEntries(calls[s].to, "in") :
              /\ e.reference = f.reference
              /\ e.ride = f.ride
              /\ calls'[s].txid = e.reference]_vars

(* ============================ cancelledBy ============================= *)
\* C32: in every state a ride has cancelledBy set exactly when its status is
\* cancelled, and then it names a party that can cancel: the rider, or the
\* driver when the ride has one
C32_CancelledByIffCancelled ==
  \A id \in RideIds :
    /\ (rides[id].cancelledBy # "none") <=> (rides[id].status = "cancelled")
    /\ rides[id].cancelledBy \in {"none", "rider", "driver"}
    /\ rides[id].cancelledBy = "driver" => rides[id].driver # NoUser

(* ================= lazy creation of the wallet: system ================ *)
\* part_002 9-16 (GET /my-wallet) and 44-48 (GET /balance): the same find
\* and create-if-missing
WalletRoutes == {"myWallet", "balance"}

getWalletStart(s, u, route) ==
  /\ BeginWallet(s, [op |-> route, pc |-> "gw_find", user |-> u])
  /\ UNCHANGED <<walletDocs, isActive, location, reply, rating, rides, nrides, isAvailable, wallets>>

\* 11, 44: Wallet.findOne({ userId: req.user.id })
getWalletFind(s) ==
  /\ calls[s].pc = "gw_find"
  /\ IF wallets[calls[s].user].exists THEN Respond(s, "ok")
     ELSE Goto(s, [pc |-> "gw_create"])
  /\ UNCHANGED <<walletDocs, isActive, location, reply, rating, rides, nrides, isAvailable, wallets, ncalls>>

\* 15, 48: Wallet.createWallet(req.user.id, req.user.role), then the answer
getWalletCreate(s) ==
  /\ calls[s].pc = "gw_create"
  /\ LET u == calls[s].user IN
       IF DuplicateKey(u) THEN Respond(s, "error") /\ UNCHANGED <<wallets, walletDocs>>
       ELSE InsertWallet(u) /\ Respond(s, "ok")
  /\ UNCHANGED <<isActive, location, reply, rating, rides, nrides, isAvailable, ncalls>>

\* r1 holds a funded wallet, the drivers have not opened one
InitLazy == InitWallet

NextLazy ==
  \/ \E s \in Slots, u \in WalletUsers, route \in WalletRoutes : getWalletStart(s, u, route)
  \/ \E s \in Slots : getWalletFind(s)
  \/ \E s \in Slots : getWalletCreate(s)
  \/ \E s \in Slots, u \in WalletUsers, a \in Amounts : depositStart(s, u, a)
  \/ \E s \in Slots : depositFind(s)
  \/ \E s \in Slots : depositCreate(s)
  \/ \E s \in Slots : depositPush(s)
  \/ \E s \in Slots : depositInitiated(s)
  \/ \E s \in Slots : depositFallback(s)
  \/ \E s \in Slots, r \in Riders \cap WalletUsers, d \in Drivers \cap WalletUsers,
        a \in Amounts : payRideStart(s, r, d, a)
  \/ \E s \in Slots : payRideRider(s)
  \/ \E s \in Slots : payRideDriver(s)
  \/ \E s \in Slots : payRideCreate(s)
  \/ \E s \in Slots : payRideSave(s)

SpecLazy == InitLazy /\ [][NextLazy]_vars

\* the handler in slot s found no wallet for u and is about to create one
AboutToCreate(s, u) ==
  \/ calls[s].pc \in {"gw_create", "dp_create"} /\ calls[s].user = u
  \/ calls[s].pc = "pr_create" /\ calls[s].to = u

RECURSIVE SumOfBalances(_, _)
SumOfBalances(w, S) ==
  IF S = {} THEN 0
  ELSE LET u == CHOOSE x \in S : TRUE IN w[u].balance + SumOfBalances(w, S \ {u})

\* C34: no step of a transfer or of a pay-ride changes the sum of all wallet
\* balances
C34_MoneyConserved ==
  [][\A s \in Slots :
       (StepOf(s) /\ calls[s].op \in {"transfer", "payRide", "completeRide"})
         => SumOfBalances(wallets', Users) = SumOfBalances(wallets, Users)]_vars

(* ======================= status and driver agree ====================== *)
\* C35: in every state a ride that is accepted, in progress or completed has
\* a driver, and a pending ride has none
C35_DriverMatchesStatus ==
  \A id \in RideIds :
    /\ rides[id].status \in {"accepted", "in_progress", "completed"}
         => rides[id].driver # NoUser
    /\ rides[id].status = "pending" => rides[id].driver = NoUser

\* an accept and a cancel ran on the same ride and the accept's save came
\* last: the ride is accepted, with its driver
C35_Witness ==
  \E id \in RideIds :
    /\ rides[id].status = "accepted"
    /\ rides[id].cancelledAt # 0
    /\ rides[id].driver \in Drivers

(* ============== completing and cancelling a ride: system ============== *)
\* ride 1 is in progress, paid by wallet; rider and driver hold wallets
InitSettle == InitTrip

NextSettle ==
  \/ \E s \in Slots, d \in Drivers, id \in RideIds : completeRideStart(s, d, id)
  \/ \E s \in Slots : completeRideFind(s)
  \/ \E s \in Slots : completeRideSave(s)
  \/ \E s \in Slots : transferFundsRead(s)
  \/ \E s \in Slots : transferFundsDebit(s)
  \/ \E s \in Slots : transferFundsCredit(s)
  \/ \E s \in Slots : transferFundsSaveFrom(s)
  \/ \E s \in Slots : transferFundsSaveTo(s)
  \/ \E s \in Slots : transferFundsCommit(s)
  \/ \E s \in Slots : transferFundsAbort(s)
  \/ \E s \in Slots : completeRidePayment(s)
  \/ \E s \in Slots : completeRideUser(s)
  \/ \E s \in Slots : completeRideDriver(s)
  \/ \E s \in Slots, u \in Users, id \in RideIds : cancelRideStart(s, u, id)
  \/ \E s \in Slots : cancelRideFind(s)
  \/ \E s \in Slots : cancelRideSave(s)
  \/ \E s \in Slots : cancelRideReason(s)
  \/ \E s \in Slots : cancelRideUser(s)
  \/ \E s \in Slots : cancelRideDriver(s)

SpecSettle == InitSettle /\ [][NextSettle]_vars

\* some wallet holds a transfer entry for ride id
TransferExecuted(id) ==
  \E u \in Users : \E i \in DOMAIN wallets[u].txs :
    wallets[u].txs[i].type = "transfer" /\ wallets[u].txs[i].ride = id

\* C36: in every state a ride for which a wallet transfer was executed is
\* completed, and a cancelled ride has payment status pending and no
\* transfer entry in any wallet
C36_NoFareForCancelledRide ==
  \A id \in RideIds :
    /\ TransferExecuted(id) => rides[id].status = "completed"
    /\ rides[id].status = "cancelled"
         => rides[id].payStatus = "pending" /\ ~TransferExecuted(id)

(* ====================== payment status of a ride ====================== *)
\* u's log holds a completed transfer entry on side dir for ride id, over
\* the ride's fare
FareEntry(u, dir, id) ==
  u # NoUser /\ \E i \in DOMAIN wallets[u].txs :
    LET t == wallets[u].txs[i] IN
      /\ t.type = "transfer" /\ t.dir = dir /\ t.status = "completed"
      /\ t.ride = id /\ t.amount = rides[id].fare

\* the fare of ride id was taken from the rider's wallet and put into the
\* driver's
FareSettled(id) ==
  FareEntry(rides[id].rider, "out", id) /\ FareEntry(rides[id].driver, "in", id)

\* C37: in every state a wallet ride with payment status completed has had
\* its fare moved from the rider's wallet to the driver's, and a ride that
\* is not completed has payment status pending
C37_PaymentStatusFollowsTransfer ==
  \A id \in RideIds :
    /\ (rides[id].payMethod = "wallet" /\ rides[id].payStatus = "completed")
         => FareSettled(id)
    /\ rides[id].status # "completed" => rides[id].payStatus = "pending"

(* ============ completeRide when the transfer cannot be made =========== *)
\* the wallets a rider may hold when the ride is completed: none, an empty
\* one, a funded one, a funded one that was deactivated
RiderWallets ==
  LET funded == [createWallet EXCEPT !.balance = TripFunds, !.v = 1,
                   !.txs = <<[Transaction("deposit", TripFunds, "completed", "none", 0, 0, 0)
                              EXCEPT !.completedAt = 0]>>] IN
    {NoWallet, createWallet, funded, [funded EXCEPT !.isActive = FALSE]}

\* ride 1 is in progress, paid by wallet, rider r1, driver d1
InitFailing ==
  /\ rides = [id \in RideIds |->
       IF id = 1
       THEN Merge(rideData("r1", 25, "wallet"),
                  [status |-> "in_progress", driver |-> "d1"])
       ELSE NoRide]
  /\ nrides = 1
  /\ isAvailable = [d \in Drivers |-> d # "d1"]
  /\ \E w \in RiderWallets, v \in {NoWallet, createWallet} :
       wallets = [u \in Users |-> IF u = "r1" THEN w ELSE IF u = "d1" THEN v ELSE NoWallet]
  /\ calls = [s \in Slots |-> Idle]
  /\ rating = [u \in Users |-> 0]
  /\ isActive = [u \in Users |-> TRUE]
  /\ location = [d \in Drivers |-> 0]
  /\ reply = <<>>
  /\ walletDocs = [u \in Users |-> IF wallets[u].exists THEN 1 ELSE 0]
  /\ ncalls = 0

SpecFailing == InitFailing /\ [][NextSettle]_vars

\* the transfer a completeRide asked for cannot be made: a wallet is missing,
\* or the rider's wallet is inactive or holds less than the fare
CannotTransfer(s) ==
  \/ ~wallets[calls[s].from].exists
  \/ ~wallets[calls[s].to].exists
  \/ ~wallets[calls[s].from].isActive
  \/ wallets[calls[s].from].balance < calls[s].amount

\* C38: a completeRide whose transfer cannot be made has saved status
\* completed, records the payment as failed without touching the status,
\* changes no wallet in any of its later steps, and ends by setting the
\* driver available and reporting success
C38_FailedTransferStillCompletes ==
  [][\A s \in Slots : (StepOf(s) /\ calls[s].op = "completeRide") =>
       /\ (calls[s].pc = "tf_read" /\ CannotTransfer(s)) =>
            /\ calls[s].doc.status = "completed"
            /\ calls'[s].pc = "co_payment" /\ calls'[s].pay = "failed"
            /\ wallets' = wallets
       /\ (calls[s].pc \in {"co_payment", "co_user", "co_driver"}
             /\ calls[s].pay = "failed") =>
            /\ wallets' = wallets
            /\ rides'[calls[s].ride].status = rides[calls[s].ride].status
            /\ calls[s].pc = "co_payment"
                 => /\ rides'[calls[s].ride].payStatus = "failed"
                    /\ calls'[s].pc = "co_user"
            /\ calls[s].pc = "co_driver"
                 => isAvailable'[calls[s].user] /\ calls'[s].res = "ok"]_vars

\* a completeRide has recorded the payment as failed because the rider's
\* wallet, which holds the fare, is inactive
C38_Witness ==
  \E s \in Slots :
    /\ calls[s].op = "completeRide" /\ calls[s].pc = "co_driver"
    /\ calls[s].pay = "failed"
    /\ rides[calls[s].ride].status = "completed"
    /\ rides[calls[s].ride].payStatus = "failed"
    /\ ~wallets[rides[calls[s].ride].rider].isActive
    /\ wallets[rides[calls[s].ride].rider].balance >= rides[calls[s].ride].fare

====
